---- MODULE Spec2Model ----
(***************************************************************************)
(* Monthly aggregate state machine of getguide/immiwatch.                  *)
(*                                                                         *)
(* State: the wall clock, the pointer document                            *)
(* (scripts/current_monthly_report.json), the monthly report files        *)
(* (reports/express-entry/<directory>/index.html) and the report template.*)
(* A report file is modelled by the ordered list of its data-target       *)
(* elements, the only part of the markup that extract_current_data reads  *)
(* back and that the update_statistics methods rewrite.                    *)
(***************************************************************************)
EXTENDS Integers, Sequences, FiniteSets, TLC

VARIABLES
    now,       \* the wall clock: [year, month, day, hour]
    pointer,   \* scripts/current_monthly_report.json, None while absent
    reports,   \* directory name -> content of its index.html
    template,  \* the shape of scripts/monthly_report_template.html
    ret,       \* the last call: its name, its arguments and what it returned
    hist,      \* history of the merges into the bucket under test
    pc,        \* position of each concurrent update_report invocation
    loc        \* local variables of the invocations in progress; the news site

vars == <<now, pointer, reports, template, ret, hist, pc, loc>>

(***************************************************************************)
(* Bounds of the model.                                                    *)
(***************************************************************************)
\* largest value a merged statistic may reach before merging is cut off
MaxTotal == 3
\* largest draw_count the pointer document may reach
MaxDraws == 2
\* longest template, counted in data-target elements
MaxElems == 4

(***************************************************************************)
(* Python values.                                                          *)
(***************************************************************************)
None == [none |-> TRUE]

PyInt(n) == [type |-> "int", v |-> n]

PyStr(s) == [type |-> "str", v |-> s]

\* dict.get(key, default)
get(d, key, default) == IF key \in DOMAIN d THEN d[key] ELSE default

\* d[key] = value on a dict that may or may not hold the key
put(d, key, value) ==
    [k \in DOMAIN d \cup {key} |-> IF k = key THEN value ELSE d[k]]

(***************************************************************************)
(* Calendar.                                                               *)
(***************************************************************************)
month_names ==
    <<"January", "February", "March", "April", "May", "June", "July",
      "August", "September", "October", "November", "December">>

\* str.lower() on the month names
lower(name) ==
    CASE name = "January" -> "january" [] name = "February" -> "february"
      [] name = "March" -> "march" [] name = "April" -> "april"
      [] name = "May" -> "may" [] name = "June" -> "june"
      [] name = "July" -> "july" [] name = "August" -> "august"
      [] name = "September" -> "september" [] name = "October" -> "october"
      [] name = "November" -> "november" [] name = "December" -> "december"
      [] OTHER -> name

IsLeap(y) == (y % 4 = 0 /\ y % 100 # 0) \/ y % 400 = 0

DaysInMonth(y, m) ==
    IF m = 2 THEN (IF IsLeap(y) THEN 29 ELSE 28)
    ELSE IF m \in {4, 6, 9, 11} THEN 30 ELSE 31

\* date + timedelta(days=n)
RECURSIVE timedelta_add(_, _)
timedelta_add(d, n) ==
    IF d.day + n <= DaysInMonth(d.year, d.month)
    THEN [d EXCEPT !.day = d.day + n]
    ELSE timedelta_add(
           [d EXCEPT !.year = IF d.month = 12 THEN d.year + 1 ELSE d.year,
                     !.month = IF d.month = 12 THEN 1 ELSE d.month + 1,
                     !.day = 1],
           n - (DaysInMonth(d.year, d.month) - d.day) - 1)

\* f"{month:02d}"
Pad2(m) == IF m < 10 THEN "0" \o ToString(m) ELSE ToString(m)

\* f"{year}-{month:02d}"
MonthStr(y, m) == ToString(y) \o "-" \o Pad2(m)

\* f"ee-{month_name.lower()}-{year}"
Directory(name, y) == "ee-" \o lower(name) \o "-" \o ToString(y)

\* the years and months the clock of the model visits
Years == {2025, 2026}

Instants ==
    {[year |-> ym[1], month |-> ym[2], day |-> dh[1], hour |-> dh[2]] :
        ym \in {<<2025, 12>>, <<2026, 1>>},
        dh \in {<<1, 3>>, <<1, 8>>, <<15, 8>>}}

Before(a, b) ==
    \/ a.year < b.year
    \/ a.year = b.year /\ a.month < b.month
    \/ a.year = b.year /\ a.month = b.month /\ a.day < b.day
    \/ a.year = b.year /\ a.month = b.month /\ a.day = b.day /\ a.hour < b.hour

\* every string that datetime.strptime(s, "%Y-%m") accepts, within Years
ValidMonths == {<<y, m>> : y \in Years, m \in 1..12}

validate_month_format(month_str) ==
    \E ym \in ValidMonths : MonthStr(ym[1], ym[2]) = month_str

\* MonthlyReportUpdater.get_month_info / MonthlyReportGenerator.get_month_info:
\* year, month = month_str.split("-"); int(month); the directory name
get_month_info(month_str) ==
    LET ym == CHOOSE p \in ValidMonths : MonthStr(p[1], p[2]) = month_str
    IN  [year |-> ToString(ym[1]),
         month_num |-> ym[2],
         month_name |-> month_names[ym[2]],
         month_str |-> month_str,
         directory |-> Directory(month_names[ym[2]], ym[1])]

month_info_of(target) ==
    [year |-> target.year,
     month |-> target.month,
     month_name |-> month_names[target.month],
     directory |-> Directory(month_names[target.month], target.year),
     is_current_month |-> TRUE]

get_current_month_info(clock) ==
    [month_str |-> MonthStr(clock.year, clock.month),
     month_info |-> month_info_of(clock)]

\* a resolver without the first-day rule: always the month after the clock's
get_next_month_info_following(clock) ==
    LET target_month ==
          [timedelta_add([clock EXCEPT !.day = 1], 32) EXCEPT !.day = 1]
    IN  [month_str |-> MonthStr(target_month.year, target_month.month),
         month_info |-> month_info_of(target_month)]

\* a resolver that steps 28 days from the first of the month instead of 32
get_next_month_info_28_days(clock) ==
    LET target_month ==
          IF clock.day = 1 THEN clock
          ELSE [timedelta_add([clock EXCEPT !.day = 1], 28) EXCEPT !.day = 1]
    IN  [month_str |-> MonthStr(target_month.year, target_month.month),
         month_info |-> month_info_of(target_month)]

get_next_month_info(clock) ==
    LET target_month ==
          IF clock.day = 1 THEN clock
          ELSE [timedelta_add([clock EXCEPT !.day = 1], 32) EXCEPT !.day = 1]
    IN  [month_str |-> MonthStr(target_month.year, target_month.month),
         month_info |-> month_info_of(target_month)]

(***************************************************************************)
(* Report files.  A report is the sequence of its data-target elements:    *)
(* kind "div" is an element of the shape                                   *)
(*   <div class="stat-number" data-target="N" data-prefix=""               *)
(*        data-suffix="">N</div>                                           *)
(* (the one MonthlyReportUpdater.update_statistics rewrites), kind "span"  *)
(*   <span class="stat-number" data-target="N">N</span>                    *)
(* (the one MonthlyReportGenerator.update_statistics rewrites).  A target  *)
(* written from a negative number ("-5") is not matched by \d+ any more.   *)
(***************************************************************************)
Kinds == {"div", "span"}

Elem(k, t) == [kind |-> k, target |-> t]

\* the shapes scripts/monthly_report_template.html may have: k span elements
\* followed by div elements; its data targets are the placeholders that
\* get_month_specific_content sets to "0"
Shape(n, k) == [i \in 1..n |-> IF i <= k THEN "span" ELSE "div"]

Templates ==
    {Shape(n, k) : n \in (MaxElems - 1)..MaxElems, k \in {0, 1, MaxElems - 1}}

\* re.sub(pattern, replacement, content, count=1) for the element patterns:
\* the first element of that kind whose target is \d+ is replaced
FirstMatch(content, kind) ==
    LET idx == {i \in 1..Len(content) :
                   content[i].kind = kind /\ content[i].target >= 0}
    IN  IF idx = {} THEN 0 ELSE CHOOSE i \in idx : \A j \in idx : i <= j

re_sub_first(content, kind, value) ==
    LET i == FirstMatch(content, kind)
    IN  IF i = 0 THEN content ELSE [content EXCEPT ![i] = Elem(kind, value)]

\* re.findall(r'data-target="(\d+)"', report_content)
stat_matches(content) ==
    LET m == SelectSeq(content, LAMBDA e : e.target >= 0)
    IN  [i \in 1..Len(m) |-> m[i].target]

zero_data ==
    [total_itas |-> 0, cec_itas |-> 0, pnp_itas |-> 0, fsw_itas |-> 0,
     fst_itas |-> 0, category_based_total |-> 0, french_speaking |-> 0,
     healthcare |-> 0, stem |-> 0, trade |-> 0, education |-> 0,
     agriculture |-> 0, draw_count |-> 0, latest_draw_date |-> "",
     latest_crs |-> PyInt(0)]

extract_current_data(report_content) ==
    LET m == stat_matches(report_content)
    IN  IF Len(m) >= 4
        THEN [zero_data EXCEPT !.total_itas = m[1], !.healthcare = m[2],
                               !.pnp_itas = m[3], !.cec_itas = m[4]]
        ELSE zero_data

\* the destination fields of the "body" branch of merge_draw_data
ProgramField ==
    [p \in {"EE-PNP", "EE-CEC", "EE-FSW", "EE-FST"} |->
        CASE p = "EE-PNP" -> "pnp_itas" [] p = "EE-CEC" -> "cec_itas"
          [] p = "EE-FSW" -> "fsw_itas" [] p = "EE-FST" -> "fst_itas"]

CategoryField ==
    [p \in {"EE-Health", "EE-French", "EE-Trade", "EE-Education",
            "EE-Agriculture", "EE-STEM"} |->
        CASE p = "EE-Health" -> "healthcare" [] p = "EE-French" -> "french_speaking"
          [] p = "EE-Trade" -> "trade" [] p = "EE-Education" -> "education"
          [] p = "EE-Agriculture" -> "agriculture" [] p = "EE-STEM" -> "stem"]

FlatKeys ==
    {"cec_itas", "pnp_itas", "fsw_itas", "fst_itas", "category_based_total",
     "french_speaking", "healthcare", "stem", "trade", "education",
     "agriculture"}

\* a merge whose program branch assigns the program's count to total_itas
\* instead of adding the invitations to it
merge_draw_data_total_assigned(current_data, new_draw_data) ==
    IF "body" \in DOMAIN new_draw_data
    THEN LET body == new_draw_data["body"]
             program == get(body, "Program", "")
             invitations == get(body, "Invitation", PyInt(0))
             crs_score == get(body, "Score", PyInt(0))
             draw_date == get(body, "draw.date.most.recent", "")
             known == program \in DOMAIN ProgramField \cup DOMAIN CategoryField
             added ==
               IF program \in DOMAIN ProgramField
               THEN [current_data EXCEPT
                       ![ProgramField[program]] = @ + invitations.v,
                       !.total_itas = current_data[ProgramField[program]]
                                        + invitations.v]
               ELSE IF program \in DOMAIN CategoryField
               THEN [current_data EXCEPT
                       ![CategoryField[program]] = @ + invitations.v,
                       !.category_based_total = @ + invitations.v,
                       !.total_itas = @ + invitations.v]
               ELSE current_data
         IN  IF known /\ invitations.type # "int"
             THEN [raised |-> TRUE, data |-> current_data]
             ELSE [raised |-> FALSE,
                   data |-> [added EXCEPT !.draw_count = @ + 1,
                                          !.latest_draw_date = draw_date,
                                          !.latest_crs = crs_score]]
    ELSE LET itas == get(new_draw_data, "itas", PyInt(0))
             bad == itas.type # "int"
                    \/ \E k \in FlatKeys : get(new_draw_data, k, PyInt(0)).type # "int"
         IN  IF bad
             THEN [raised |-> TRUE, data |-> current_data]
             ELSE [raised |-> FALSE,
                   data |->
                     [k \in DOMAIN current_data |->
                        IF k = "total_itas" THEN current_data[k] + itas.v
                        ELSE IF k \in FlatKeys
                        THEN current_data[k] + get(new_draw_data, k, PyInt(0)).v
                        ELSE IF k = "draw_count" THEN current_data[k] + 1
                        ELSE IF k = "latest_draw_date"
                        THEN get(new_draw_data, "draw_date", "")
                        ELSE get(new_draw_data, "crs", PyInt(0))]]

\* merge_draw_data: [raised, data]; int += str raises TypeError
merge_draw_data(current_data, new_draw_data) ==
    IF "body" \in DOMAIN new_draw_data
    THEN LET body == new_draw_data["body"]
             program == get(body, "Program", "")
             invitations == get(body, "Invitation", PyInt(0))
             crs_score == get(body, "Score", PyInt(0))
             draw_date == get(body, "draw.date.most.recent", "")
             known == program \in DOMAIN ProgramField \cup DOMAIN CategoryField
             added ==
               IF program \in DOMAIN ProgramField
               THEN [current_data EXCEPT
                       ![ProgramField[program]] = @ + invitations.v,
                       !.total_itas = @ + invitations.v]
               ELSE IF program \in DOMAIN CategoryField
               THEN [current_data EXCEPT
                       ![CategoryField[program]] = @ + invitations.v,
                       !.category_based_total = @ + invitations.v,
                       !.total_itas = @ + invitations.v]
               ELSE current_data
         IN  IF known /\ invitations.type # "int"
             THEN [raised |-> TRUE, data |-> current_data]
             ELSE [raised |-> FALSE,
                   data |-> [added EXCEPT !.draw_count = @ + 1,
                                          !.latest_draw_date = draw_date,
                                          !.latest_crs = crs_score]]
    ELSE LET itas == get(new_draw_data, "itas", PyInt(0))
             bad == itas.type # "int"
                    \/ \E k \in FlatKeys : get(new_draw_data, k, PyInt(0)).type # "int"
         IN  IF bad
             THEN [raised |-> TRUE, data |-> current_data]
             ELSE [raised |-> FALSE,
                   data |->
                     [k \in DOMAIN current_data |->
                        IF k = "total_itas" THEN current_data[k] + itas.v
                        ELSE IF k \in FlatKeys
                        THEN current_data[k] + get(new_draw_data, k, PyInt(0)).v
                        ELSE IF k = "draw_count" THEN current_data[k] + 1
                        ELSE IF k = "latest_draw_date"
                        THEN get(new_draw_data, "draw_date", "")
                        ELSE get(new_draw_data, "crs", PyInt(0))]]

\* generate_intelligent_analysis raises where generate_strategic_insights
\* divides by total_itas == 0 or compares a str latest_crs with 0
analysis_raises(updated_data) ==
    \/ /\ updated_data.total_itas = 0
       /\ \/ updated_data.cec_itas > 0
          \/ updated_data.pnp_itas > 0
          \/ updated_data.category_based_total > 0
    \/ updated_data.latest_crs.type # "int"

\* MonthlyReportUpdater.update_statistics: four re.sub(..., count=1) in a row
update_statistics(content, updated_data) ==
    LET c1 == re_sub_first(content, "div", updated_data.total_itas)
        c2 == re_sub_first(c1, "div", updated_data.healthcare)
        c3 == re_sub_first(c2, "div", updated_data.pnp_itas)
    IN  re_sub_first(c3, "div", updated_data.cec_itas)

\* update_report_content: of its six updates only update_statistics touches
\* the data-target elements
update_report_content(report_content, updated_data) ==
    update_statistics(report_content, updated_data)

\* MonthlyReportGenerator.update_statistics: three re.sub(..., count=1)
generator_update_statistics(content, data) ==
    LET c1 == re_sub_first(content, "span", data.total_itas)
        c2 == re_sub_first(c1, "span", data.cec_itas)
    IN  re_sub_first(c2, "span", data.pnp_itas)

write_file(reps, directory, content) ==
    [d \in DOMAIN reps \cup {directory} |->
        IF d = directory THEN content ELSE reps[d]]

\* MonthlyReportGenerator.generate_report: the template with every
\* placeholder set to "0", then update_statistics, written to the directory
generate_report(reps, tmpl, month_str, data) ==
    LET month_info == get_month_info(month_str)
        template_content == [i \in 1..Len(tmpl) |-> Elem(tmpl[i], 0)]
        updated_content == generator_update_statistics(template_content, data)
    IN  IF ~validate_month_format(month_str)
        THEN [raised |-> TRUE, reports |-> reps]
        ELSE [raised |-> FALSE,
              reports |-> write_file(reps, month_info.directory, updated_content),
              output_file |-> month_info.directory]

\* MonthlyReportUpdater.update_report: every raise leaves the report unwritten
update_report(reps, month_str, new_draw_data) ==
    IF ~validate_month_format(month_str)
    THEN [raised |-> TRUE, error |-> "ValueError", reports |-> reps]
    ELSE LET month_info == get_month_info(month_str)
         IN  IF month_info.directory \notin DOMAIN reps
             THEN [raised |-> TRUE, error |-> "FileNotFoundError", reports |-> reps]
             ELSE LET report_content == reps[month_info.directory]
                      current_data == extract_current_data(report_content)
                      merged == merge_draw_data(current_data, new_draw_data)
                  IN  IF merged.raised
                      THEN [raised |-> TRUE, error |-> "TypeError", reports |-> reps]
                      ELSE IF analysis_raises(merged.data)
                      THEN [raised |-> TRUE,
                            error |-> IF merged.data.latest_crs.type # "int"
                                      THEN "TypeError" ELSE "ZeroDivisionError",
                            reports |-> reps]
                      ELSE [raised |-> FALSE,
                            reports |-> write_file(reps, month_info.directory,
                                         update_report_content(report_content, merged.data)),
                            current_data |-> current_data,
                            updated_data |-> merged.data,
                            report_file |-> month_info.directory]

(***************************************************************************)
(* CurrentMonthlyReportManager.  Every operation maps the files it may     *)
(* touch to [pointer, reports, value]: the files afterwards and what the   *)
(* call returns.                                                           *)
(***************************************************************************)
create_initial_monthly_data(month_str, month_info, clock) ==
    [total_itas |-> 0, cec_itas |-> 0, pnp_itas |-> 0, fsw_itas |-> 0,
     fst_itas |-> 0, category_based_total |-> 0, french_speaking |-> 0,
     healthcare |-> 0, stem |-> 0, trade |-> 0, education |-> 0,
     agriculture |-> 0, month_str |-> month_str, month_info |-> month_info,
     created_at |-> clock, last_updated |-> clock, draw_count |-> 0,
     status |-> "initialized"]

\* update_current_report_designation: the document it saves and returns
update_current_report_designation(month_str, month_info, clock) ==
    [month_str |-> month_str,
     month_info |-> month_info,
     designated_at |-> clock,
     local_path |-> month_info.directory,
     status |-> "current"]

create_current_monthly_report(ptr, reps, tmpl, clock) ==
    LET cm == get_current_month_info(clock)
        month_str == cm.month_str
        month_info == cm.month_info
        current_info == update_current_report_designation(month_str, month_info, clock)
    IN  IF month_info.directory \in DOMAIN reps
        THEN [pointer |-> current_info, reports |-> reps, value |-> current_info]
        ELSE LET initial_data == create_initial_monthly_data(month_str, month_info, clock)
                 gen == generate_report(reps, tmpl, month_str, initial_data)
             IN  [pointer |-> current_info,
                  reports |-> gen.reports,
                  value |-> [success |-> TRUE,
                             month_str |-> month_str,
                             month_info |-> month_info,
                             report_file |-> gen.output_file,
                             status |-> "created"]]

get_current_report_info(ptr, reps, tmpl, clock) ==
    IF ptr # None
    THEN [pointer |-> ptr, reports |-> reps, value |-> ptr]
    ELSE create_current_monthly_report(ptr, reps, tmpl, clock)

\* an ingestion that counts the draw in the pointer before it merges it
update_current_report_with_draw_counted_first(ptr, reps, tmpl, clock, draw_data) ==
    LET g == get_current_report_info(ptr, reps, tmpl, clock)
        current_info == g.value
        month_str == current_info.month_str
        u == update_report(g.reports, month_str, draw_data)
        draw_count == get(current_info, "draw_count", 0) + 1
        saved == put(current_info, "draw_count", draw_count)
    IN  IF u.raised
        THEN [pointer |-> saved, reports |-> g.reports,
              value |-> [success |-> FALSE, error |-> u.error]]
        ELSE [pointer |-> saved, reports |-> u.reports,
              value |-> [success |-> TRUE,
                         month_str |-> month_str,
                         updated_file |-> u.report_file,
                         draw_count |-> draw_count],
              updated_data |-> u.updated_data]

\* an ingestion that merges into the bucket of the event's own draw date
update_current_report_with_draw_by_date(ptr, reps, tmpl, clock, draw_data) ==
    LET g == get_current_report_info(ptr, reps, tmpl, clock)
        current_info == g.value
        date == draw_data.body["draw.date.most.recent"]
        month_str == CHOOSE ms \in {MonthStr(ym[1], ym[2]) : ym \in ValidMonths} :
                        \E d \in 1..9 : date = ms \o "-0" \o ToString(d)
        u == update_report(g.reports, month_str, draw_data)
        draw_count == get(current_info, "draw_count", 0) + 1
        saved == put(current_info, "draw_count", draw_count)
    IN  IF u.raised
        THEN [pointer |-> g.pointer, reports |-> g.reports,
              value |-> [success |-> FALSE, error |-> u.error]]
        ELSE [pointer |-> saved, reports |-> u.reports,
              value |-> [success |-> TRUE,
                         month_str |-> month_str,
                         updated_file |-> u.report_file,
                         draw_count |-> draw_count],
              updated_data |-> u.updated_data]

update_current_report_with_draw(ptr, reps, tmpl, clock, draw_data) ==
    LET g == get_current_report_info(ptr, reps, tmpl, clock)
        current_info == g.value
        month_str == current_info.month_str
        u == update_report(g.reports, month_str, draw_data)
        draw_count == get(current_info, "draw_count", 0) + 1
        \* the last_updated timestamp it also sets is read by nothing
        saved == put(current_info, "draw_count", draw_count)
    IN  IF u.raised
        THEN [pointer |-> g.pointer, reports |-> g.reports,
              value |-> [success |-> FALSE, error |-> u.error]]
        ELSE [pointer |-> saved, reports |-> u.reports,
              value |-> [success |-> TRUE,
                         month_str |-> month_str,
                         updated_file |-> u.report_file,
                         draw_count |-> draw_count],
              updated_data |-> u.updated_data]

\* a transition check without the first-day test
check_and_create_next_month_report_any_day(ptr, reps, tmpl, clock) ==
    LET nm == get_next_month_info(clock)
        next_month_str == nm.month_str
        next_month_info == nm.month_info
        initial_data ==
            create_initial_monthly_data(next_month_str, next_month_info, clock)
        gen == generate_report(reps, tmpl, next_month_str, initial_data)
    IN  [pointer |-> update_current_report_designation(
                        next_month_str, next_month_info, clock),
         reports |-> gen.reports,
         value |-> [success |-> TRUE,
                    new_month |-> next_month_str,
                    report_file |-> gen.output_file,
                    status |-> "month_transition"]]

\* a transition check that generates the report but leaves the pointer
check_and_create_next_month_report_undesignated(ptr, reps, tmpl, clock) ==
    LET nm == get_next_month_info(clock)
        next_month_str == nm.month_str
        next_month_info == nm.month_info
    IN  IF clock.day = 1 /\ clock.hour < 6
        THEN LET initial_data ==
                   create_initial_monthly_data(next_month_str, next_month_info, clock)
                 gen == generate_report(reps, tmpl, next_month_str, initial_data)
             IN  [pointer |-> ptr,
                  reports |-> gen.reports,
                  value |-> [success |-> TRUE,
                             new_month |-> next_month_str,
                             report_file |-> gen.output_file,
                             status |-> "month_transition"]]
        ELSE [pointer |-> ptr, reports |-> reps,
              value |-> [success |-> TRUE, status |-> "no_transition_needed"]]

check_and_create_next_month_report(ptr, reps, tmpl, clock) ==
    LET nm == get_next_month_info(clock)
        next_month_str == nm.month_str
        next_month_info == nm.month_info
    IN  IF clock.day = 1 /\ clock.hour < 6
        THEN LET initial_data ==
                   create_initial_monthly_data(next_month_str, next_month_info, clock)
                 gen == generate_report(reps, tmpl, next_month_str, initial_data)
             IN  [pointer |-> update_current_report_designation(
                                 next_month_str, next_month_info, clock),
                  reports |-> gen.reports,
                  value |-> [success |-> TRUE,
                             new_month |-> next_month_str,
                             report_file |-> gen.output_file,
                             status |-> "month_transition"]]
        ELSE [pointer |-> ptr, reports |-> reps,
              value |-> [success |-> TRUE, status |-> "no_transition_needed"]]

(***************************************************************************)
(* Inputs.                                                                 *)
(***************************************************************************)
\* the webhook payload of the Lambda format
Body(program, invitation) ==
    [body |-> [Program |-> program,
               Invitation |-> PyInt(invitation),
               Score |-> PyInt(475)]
              @@ ("draw.date.most.recent" :> "2025-12-05")
              @@ ("Draw Number" :> PyInt(1))]

KnownPrograms == DOMAIN ProgramField \cup DOMAIN CategoryField

Payloads ==
    {Body(p, i) : p \in {"EE-CEC", "EE-Health"}, i \in {1, 2}}

\* every count of the merged state is within the bound of the model
WithinBound(data) ==
    \A k \in FlatKeys \cup {"total_itas"} : data[k] <= MaxTotal

(***************************************************************************)
(* The manager's operations, one action per entry point.                   *)
(***************************************************************************)
Call(op, args, value) ==
    [op |-> op, args |-> args, value |-> value,
     month |-> MonthStr(now.year, now.month),
     before |-> get(pointer, "month_str", ""),
     prev_op |-> ret.op, prev_month |-> ret.month]

NoCall ==
    [op |-> "none", args |-> None, value |-> None, month |-> "",
     before |-> "", prev_op |-> "none", prev_month |-> ""]

Init ==
    /\ now \in Instants
    /\ pointer = None
    /\ reports = << >>
    /\ template \in Templates
    /\ ret = NoCall
    /\ hist = None
    /\ pc = << >>
    /\ loc = << >>

\* time passes
Tick ==
    /\ \E t \in Instants : Before(now, t) /\ now' = t
    /\ UNCHANGED <<pointer, reports, template, ret, hist, pc, loc>>

\* --create-current
CreateCurrent ==
    LET r == create_current_monthly_report(pointer, reports, template, now)
    IN  /\ pointer' = r.pointer
        /\ reports' = r.reports
        /\ ret' = Call("create_current_monthly_report", None, r.value)
        /\ UNCHANGED <<now, template, hist, pc, loc>>

\* --get-current
GetCurrent ==
    LET r == get_current_report_info(pointer, reports, template, now)
    IN  /\ pointer' = r.pointer
        /\ reports' = r.reports
        /\ ret' = Call("get_current_report_info", None, r.value)
        /\ UNCHANGED <<now, template, hist, pc, loc>>

\* --update-current
UpdateCurrent ==
    LET cm == get_current_month_info(now)
        r == update_current_report_designation(cm.month_str, cm.month_info, now)
    IN  /\ pointer' = r
        /\ ret' = Call("update_current_report_designation", None, r)
        /\ UNCHANGED <<now, reports, template, hist, pc, loc>>

\* --check-transition
CheckTransition ==
    LET r == check_and_create_next_month_report(pointer, reports, template, now)
    IN  /\ pointer' = r.pointer
        /\ reports' = r.reports
        /\ ret' = Call("check_and_create_next_month_report", None, r.value)
        /\ UNCHANGED <<now, template, hist, pc, loc>>

\* a draw reaches the manager (the webhook path)
UpdateWithDraw ==
    \E draw_data \in Payloads :
        LET r == update_current_report_with_draw(pointer, reports, template,
                                                 now, draw_data)
        IN  /\ r.value.success =>
                  /\ WithinBound(r.updated_data)
                  /\ r.value.draw_count <= MaxDraws
            /\ pointer' = r.pointer
            /\ reports' = r.reports
            /\ ret' = Call("update_current_report_with_draw", draw_data, r.value)
            /\ UNCHANGED <<now, template, hist, pc, loc>>

Next ==
    \/ Tick
    \/ CreateCurrent
    \/ GetCurrent
    \/ UpdateCurrent
    \/ CheckTransition
    \/ UpdateWithDraw

Spec == Init /\ [][Next]_vars

(***************************************************************************)
(* One month bucket under successive update_report calls                   *)
(* (python3 scripts/update_monthly_report.py YYYY-MM --draw-data f.json).  *)
(* hist records what was merged: n successful merges, whether every event  *)
(* so far was a valid one, and the report as it was before the last call.  *)
(***************************************************************************)
BucketMonth == MonthStr(2025, 12)

BucketDir == get_month_info(BucketMonth).directory

AllPrograms == KnownPrograms \cup {"EE-General", "Unknown-Stream-XYZ"}

MergePayloads == {Body(p, i) : p \in AllPrograms, i \in {-5, 1, 2}}

\* a valid event: a known program code and a non-negative count
ValidEvent(draw_data) ==
    /\ draw_data.body.Program \in KnownPrograms
    /\ draw_data.body.Invitation.type = "int"
    /\ draw_data.body.Invitation.v >= 0

InitMerge ==
    /\ now \in {t \in Instants : t.year = 2025 /\ t.day = 15}
    /\ pointer = None
    /\ template \in Templates
    /\ reports = generate_report(<< >>, template, BucketMonth, zero_data).reports
    /\ ret = NoCall
    /\ hist = [n |-> 0, valid |-> TRUE, before |-> << >>]
    /\ pc = << >>
    /\ loc = << >>

MergeDraw ==
    \E draw_data \in MergePayloads :
        LET u == update_report(reports, BucketMonth, draw_data)
        IN  /\ hist.n < MaxDraws
            /\ ~u.raised => WithinBound(u.updated_data)
            /\ reports' = u.reports
            /\ ret' = Call("update_report", draw_data,
                           IF u.raised
                           THEN [raised |-> TRUE, error |-> u.error]
                           ELSE [raised |-> FALSE,
                                 current_data |-> u.current_data,
                                 updated_data |-> u.updated_data])
            /\ hist' = [n |-> IF u.raised THEN hist.n ELSE hist.n + 1,
                        valid |-> hist.valid /\ ValidEvent(draw_data),
                        before |-> reports[BucketDir]]
            /\ UNCHANGED <<now, pointer, template, pc, loc>>

NextMerge == MergeDraw

SpecMerge == InitMerge /\ [][NextMerge]_vars

(***************************************************************************)
(* Two update_report invocations for the same month whose load and write   *)
(* steps interleave: update_report takes no lock and reads the report      *)
(* (line 388) long before it writes it back (lines 411-413).               *)
(***************************************************************************)
Procs == {1, 2}

ConcPayloads == {Body(p, i) : p \in {"EE-CEC", "EE-PNP", "EE-Health"}, i \in {1, 2}}

InitConc ==
    /\ now \in {t \in Instants : t.year = 2025 /\ t.day = 15}
    /\ pointer = None
    /\ template \in Templates
    /\ reports = generate_report(<< >>, template, BucketMonth, zero_data).reports
    /\ ret = NoCall
    /\ hist = None
    /\ pc = [p \in Procs |-> "start"]
    /\ loc \in [Procs -> [draw_data : ConcPayloads, report_content : {<< >>}]]

\* update_report lines 378-392: validate, load the report and the draw data
LoadReport(p) ==
    /\ pc[p] = "start"
    /\ validate_month_format(BucketMonth)
    /\ BucketDir \in DOMAIN reports
    /\ loc' = [loc EXCEPT ![p].report_content = reports[BucketDir]]
    /\ pc' = [pc EXCEPT ![p] = "loaded"]
    /\ UNCHANGED <<now, pointer, reports, template, ret, hist>>

\* update_report lines 394-413: extract, merge, analyse, render and write
WriteReport(p) ==
    /\ pc[p] = "loaded"
    /\ LET current_data == extract_current_data(loc[p].report_content)
           merged == merge_draw_data(current_data, loc[p].draw_data)
       IN  IF merged.raised \/ analysis_raises(merged.data)
           THEN /\ pc' = [pc EXCEPT ![p] = "raised"]
                /\ UNCHANGED reports
           ELSE /\ pc' = [pc EXCEPT ![p] = "done"]
                /\ reports' = write_file(reports, BucketDir,
                       update_report_content(loc[p].report_content, merged.data))
    /\ UNCHANGED <<now, pointer, template, ret, hist, loc>>

NextConc == \E p \in Procs : LoadReport(p) \/ WriteReport(p)

SpecConc == InitConc /\ [][NextConc]_vars

(***************************************************************************)
(* Properties.                                                             *)
(***************************************************************************)
CategorySum(data) ==
    data.french_speaking + data.healthcare + data.stem + data.trade
        + data.education + data.agriculture

ProgramSum(data) ==
    data.cec_itas + data.pnp_itas + data.fsw_itas + data.fst_itas

SumInvariant(data) ==
    /\ data.total_itas = ProgramSum(data) + CategorySum(data)
    /\ data.category_based_total = CategorySum(data)

Merged == ret.op = "update_report" /\ ~ret.value.raised

\* C1: after every merge of a sequence of valid events into one bucket by
\* successive update_report calls, the merged state has total_itas equal to
\* the sum of the program and category fields, and category_based_total equal
\* to the sum of the category fields.
C1_SumConsistency ==
    (Merged /\ hist.valid) => SumInvariant(ret.value.updated_data)

\* the report holds the four stat-number elements update_statistics writes
FourStatElements(content) ==
    Cardinality({i \in 1..Len(content) :
                    content[i].kind = "div" /\ content[i].target >= 0}) >= 4

\* C2: after update_report has written the merged state, the next load of the
\* bucket (extract_current_data over the written report) observes the written
\* total_itas, healthcare, pnp_itas and cec_itas.
C2_ReadYourWrites ==
    (Merged /\ hist.valid /\ FourStatElements(hist.before)) =>
        LET loaded == extract_current_data(reports[BucketDir])
            written == ret.value.updated_data
        IN  /\ loaded.total_itas = written.total_itas
            /\ loaded.healthcare = written.healthcare
            /\ loaded.pnp_itas = written.pnp_itas
            /\ loaded.cec_itas = written.cec_itas

\* the reports after update_report for draw a, then update_report for draw b
Serial(reps, a, b) ==
    update_report(update_report(reps, BucketMonth, a).reports, BucketMonth, b).reports

\* C3: merges into one bucket are serialized: when two update_report
\* invocations for the same month have both finished, in whatever order their
\* load and write steps interleaved, the report is the one that running them
\* one after the other leaves, so that it reflects both events.
C3_NoLostUpdate ==
    (\A p \in Procs : pc[p] = "done") =>
        LET initial == generate_report(<< >>, template, BucketMonth, zero_data).reports
        IN  \/ reports = Serial(initial, loc[1].draw_data, loc[2].draw_data)
            \/ reports = Serial(initial, loc[2].draw_data, loc[1].draw_data)

\* C4: after n successful merges into the bucket, the merged state's
\* draw_count is n.
C4_EventCount ==
    (Merged /\ hist.valid) => ret.value.updated_data.draw_count = hist.n

\* C5: an event whose program label is not a known code is merged without
\* raising, its invitations are added to total_itas, and the sum invariant
\* holds afterwards.
C5_UnknownProgramFallback ==
    (/\ ret.op = "update_report"
     /\ ret.args.body.Program \notin KnownPrograms
     /\ ret.args.body.Invitation.v >= 0) =>
        /\ ~ret.value.raised
        /\ ret.value.updated_data.total_itas
             = ret.value.current_data.total_itas + ret.args.body.Invitation.v
        /\ SumInvariant(ret.value.updated_data)

\* C6: merging an event with a negative invitation count reports an error
\* and leaves the bucket as it was.
C6_NegativeRejected ==
    (ret.op = "update_report" /\ ret.args.body.Invitation.v < 0) =>
        /\ ret.value.raised
        /\ reports[BucketDir] = hist.before

SecondCreate ==
    /\ CreateCurrent
    /\ ret.op = "create_current_monthly_report"
    /\ ret.month = MonthStr(now.year, now.month)

CurrentDir == get_current_month_info(now).month_info.directory

\* C7: the second of two create_current_monthly_report calls in
\* a row within one month is a no-op: the report and the pointer document are
\* the same before and after it, and it returns the existing designation.
C7_SecondCreateIsNoOp ==
    [][SecondCreate =>
          /\ reports' = reports
          /\ pointer' = pointer
          /\ ret'.value = pointer]_vars

\* C8: check_and_create_next_month_report changes neither the pointer nor any
\* report unless it is day 1, the hour is below 6 and the resolved upcoming
\* month differs from the month the pointer designates.
C8_NoOpOtherwise ==
    [][(/\ CheckTransition
        /\ ~(/\ now.day = 1
             /\ now.hour < 6
             /\ \/ pointer = None
                \/ pointer.month_str # get_next_month_info(now).month_str))
          => UNCHANGED <<pointer, reports>>]_vars

\* the pointer designates a month before the month of the clock
PointerBehind ==
    /\ pointer # None
    /\ \/ pointer.month_info.year < now.year
       \/ pointer.month_info.year = now.year /\ pointer.month_info.month < now.month

\* C9: with the pointer at M and check_and_create_next_month_report invoked
\* on day 1 before 06:00 of a later month M', the pointer designates M'
\* afterwards and a report of M' with all-zero targets exists; an invocation
\* on day 1 at or after 06:00 with the pointer at M' changes nothing.
C9_Transition ==
    [][CheckTransition =>
          /\ (PointerBehind /\ now.day = 1 /\ now.hour < 6) =>
                /\ pointer'.month_str = MonthStr(now.year, now.month)
                /\ CurrentDir \in DOMAIN reports'
                /\ \A i \in 1..Len(reports'[CurrentDir]) :
                       reports'[CurrentDir][i].target = 0
                /\ extract_current_data(reports'[CurrentDir]) = zero_data
          /\ (/\ pointer # None
              /\ now.day = 1 /\ now.hour >= 6
              /\ pointer.month_str = MonthStr(now.year, now.month)) =>
                UNCHANGED <<pointer, reports>>]_vars

\* the check has moved the pointer from December 2025 to January 2026
C9_Witness ==
    /\ ret.op = "check_and_create_next_month_report"
    /\ ret.value.status = "month_transition"
    /\ ret.before = MonthStr(2025, 12)
    /\ pointer.month_str = MonthStr(2026, 1)
    /\ ret.value.new_month = pointer.month_str

\* C10: with the pointer set, get_current_report_info returns it as it is and
\* writes nothing, whatever the month of the clock; with the pointer unset,
\* afterwards the pointer designates the month of the clock, the report of
\* that month exists (all-zero if it was absent) and the pointer is what the
\* call returns.
C10_GetCurrent ==
    [][GetCurrent =>
          /\ pointer # None =>
                /\ ret'.value = pointer
                /\ UNCHANGED <<pointer, reports>>
          /\ pointer = None =>
                /\ pointer'.month_str = MonthStr(now.year, now.month)
                /\ CurrentDir \in DOMAIN reports'
                /\ CurrentDir \notin DOMAIN reports =>
                      extract_current_data(reports'[CurrentDir]) = zero_data
                /\ ret'.value = pointer']_vars

(***************************************************************************)
(* get_next_month_info on every date of a leap and a common year.          *)
(***************************************************************************)
\* the years whose dates the resolver is applied to
ResolveYears == {2024, 2025}

Dates ==
    {[year |-> y, month |-> m, day |-> d, hour |-> 8] :
        y \in ResolveYears, m \in 1..12, d \in 1..31} \ 
    {t \in [year : ResolveYears, month : 1..12, day : 1..31, hour : {8}] :
        t.day > DaysInMonth(t.year, t.month)}

InitResolve ==
    /\ now \in Dates
    /\ pointer = None
    /\ reports = << >>
    /\ template = << >>
    /\ ret = NoCall
    /\ hist = None
    /\ pc = << >>
    /\ loc = << >>

ResolveUpcoming ==
    /\ ret' = Call("get_next_month_info", None, get_next_month_info(now))
    /\ UNCHANGED <<now, pointer, reports, template, hist, pc, loc>>

NextResolve == ResolveUpcoming

SpecResolve == InitResolve /\ [][NextResolve]_vars

\* C11: get_next_month_info returns the zero-padded YYYY-MM of the clock's own
\* month on day 1, and on any other day that of the following calendar month,
\* December rolling over into January of the next year.
C11_ResolveUpcoming ==
    ret.op = "get_next_month_info" =>
        LET y == IF now.day # 1 /\ now.month = 12 THEN now.year + 1 ELSE now.year
            m == IF now.day = 1 THEN now.month
                 ELSE IF now.month = 12 THEN 1 ELSE now.month + 1
        IN  /\ ret.value.month_str =
                  ToString(y) \o "-" \o (IF m < 10 THEN "0" ELSE "") \o ToString(m)
            /\ ret.value.month_info.year = y
            /\ ret.value.month_info.month = m

\* the resolver has rolled 15 December 2025 over into January 2026, and has
\* kept 1 September 2025 in September
C11_Witness ==
    /\ ret.op = "get_next_month_info"
    /\ \/ now.year = 2025 /\ now.month = 12 /\ now.day = 15
          /\ ret.value.month_str = "2026-01"
       \/ now.year = 2025 /\ now.month = 9 /\ now.day = 1
          /\ ret.value.month_str = "2025-09"

(***************************************************************************)
(* WebhookHandler: validation and processing of one webhook payload.       *)
(***************************************************************************)
\* f"{year}-{month:02d}-{day:02d}"
DateStr(y, m, d) == MonthStr(y, m) \o "-" \o Pad2(d)

\* datetime.strptime(s, "%Y-%m-%d") succeeds
ValidDates ==
    UNION {{DateStr(y, m, d) : d \in 1..DaysInMonth(y, m)} :
              y \in Years, m \in 1..12}

strptime_date_ok(s) == s \in ValidDates

required_fields ==
    {"Program", "draw.date.most.recent", "Score", "Invitation", "Draw Number"}

numeric_fields == {"Score", "Invitation", "Draw Number"}

\* validate_webhook_data: [raised, error]; isinstance(value, (int, float))
\* holds for no str
validate_webhook_data(data) ==
    IF "body" \notin DOMAIN data
    THEN [raised |-> TRUE, error |-> "Missing 'body' field in webhook data"]
    ELSE LET body == data["body"]
         IN  IF \E field \in required_fields : field \notin DOMAIN body
             THEN [raised |-> TRUE, error |-> "Missing required field in body"]
             ELSE IF ~strptime_date_ok(body["draw.date.most.recent"])
             THEN [raised |-> TRUE, error |-> "Invalid date format"]
             ELSE IF \E field \in numeric_fields : body[field].type # "int"
             THEN [raised |-> TRUE, error |-> "Field must be numeric"]
             ELSE [raised |-> FALSE, error |-> ""]

\* process_webhook lines 210-225, after update_current_report_with_draw has
\* returned r: the result is built with webhook_data["draw_number"]
webhook_result(webhook_data, month_str, r) ==
    IF ~r.value.success
    THEN r
    ELSE IF "draw_number" \notin DOMAIN webhook_data
    THEN [r EXCEPT !.value = [success |-> FALSE, error |-> "'draw_number'"]]
    ELSE [r EXCEPT !.value = [success |-> TRUE,
                              month |-> month_str,
                              draw_number |-> webhook_data["draw_number"],
                              updated_file |-> r.value.updated_file,
                              draw_count |-> r.value.draw_count]]

\* process_webhook: [pointer, reports, value]; every exception ends in the
\* except clause, after whatever was written before it was raised.  The
\* singleton sets bind the result of each call, evaluated once.
process_webhook(ptr, reps, tmpl, clock, webhook_data) ==
    IF validate_webhook_data(webhook_data).raised
    THEN [pointer |-> ptr, reports |-> reps,
          value |-> [success |-> FALSE,
                     error |-> validate_webhook_data(webhook_data).error]]
    ELSE CHOOSE result \in
           UNION {{webhook_result(webhook_data, current_info.value.month_str, r) :
                      r \in {update_current_report_with_draw(
                                current_info.pointer, current_info.reports,
                                tmpl, clock, webhook_data)}} :
                  current_info \in {get_current_report_info(ptr, reps, tmpl, clock)}} :
           TRUE

\* a webhook payload: the Lambda body, with or without a top-level
\* draw_number key beside it
Webhook(program, invitation, date, top_level) ==
    LET data == [body |-> [Program |-> program,
                           Invitation |-> invitation,
                           Score |-> PyInt(475)]
                          @@ ("draw.date.most.recent" :> date)
                          @@ ("Draw Number" :> PyInt(1))]
    IN  IF top_level THEN put(data, "draw_number", PyInt(1)) ELSE data

WebhookPayloads ==
    {Webhook(program, invitation, date, top_level) :
        program \in {"EE-CEC", "EE-Health"},
        invitation \in {PyInt(1), PyStr("1")},
        date \in {"2025-12-05", "05/12/2025"},
        top_level \in BOOLEAN}

InitWebhook ==
    /\ now \in {t \in Instants : t.day = 15}
    /\ pointer = None
    /\ reports = << >>
    /\ template \in Templates
    /\ ret = NoCall
    /\ hist = None
    /\ pc = << >>
    /\ loc = << >>

\* --webhook-data / --webhook-json
ProcessWebhook ==
    \E webhook_data \in WebhookPayloads :
        \E r \in {process_webhook(pointer, reports, template, now, webhook_data)} :
            /\ r.pointer # None =>
                  get(r.pointer, "draw_count", 0) <= MaxDraws
            /\ \A d \in DOMAIN r.reports : \A i \in 1..Len(r.reports[d]) :
                  r.reports[d][i].target <= MaxTotal
            /\ pointer' = r.pointer
            /\ reports' = r.reports
            /\ ret' = Call("process_webhook", webhook_data, r.value)
            /\ UNCHANGED <<now, template, hist, pc, loc>>

NextWebhook == CreateCurrent \/ ProcessWebhook

SpecWebhook == InitWebhook /\ [][NextWebhook]_vars

\* C12: process_webhook reports success = False only if it left the reports
\* as they were, and whenever it has changed the report of the bucket it
\* reports success = True, naming the month and the draw.
C12_AllOrNothing ==
    [][(ProcessWebhook /\ pointer # None /\ CurrentDir \in DOMAIN reports) =>
          /\ ~ret'.value.success => reports' = reports
          /\ reports' # reports =>
                /\ ret'.value.success
                /\ {"month", "draw_number"} \subseteq DOMAIN ret'.value]_vars

(***************************************************************************)
(* The poller (ee-draw-checker): fetch_latest_draw turns the first round   *)
(* of the IRCC feed into the webhook payload.  A Python str of the feed is *)
(* the sequence of its characters.                                         *)
(***************************************************************************)
\* str.lower(), character by character
lower_char(c) ==
    CASE c = "A" -> "a"
      [] c = "B" -> "b"
      [] c = "C" -> "c"
      [] c = "D" -> "d"
      [] c = "E" -> "e"
      [] c = "F" -> "f"
      [] c = "G" -> "g"
      [] c = "H" -> "h"
      [] c = "I" -> "i"
      [] c = "J" -> "j"
      [] c = "K" -> "k"
      [] c = "L" -> "l"
      [] c = "M" -> "m"
      [] c = "N" -> "n"
      [] c = "O" -> "o"
      [] c = "P" -> "p"
      [] c = "Q" -> "q"
      [] c = "R" -> "r"
      [] c = "S" -> "s"
      [] c = "T" -> "t"
      [] c = "U" -> "u"
      [] c = "V" -> "v"
      [] c = "W" -> "w"
      [] c = "X" -> "x"
      [] c = "Y" -> "y"
      [] c = "Z" -> "z"
      [] OTHER -> c

str_lower(s) == [i \in 1..Len(s) |-> lower_char(s[i])]

\* needle in haystack
contains(haystack, needle) ==
    \E i \in 0..(Len(haystack) - Len(needle)) :
        \A j \in 1..Len(needle) : haystack[i + j] = needle[j]

\* str.replace(",", "")
remove_commas(s) == SelectSeq(s, LAMBDA c : c # ",")

\* str(n) for n >= 0
RECURSIVE int_to_str(_)
int_to_str(n) ==
    IF n < 10 THEN <<ToString(n)>> ELSE int_to_str(n \div 10) \o <<ToString(n % 10)>>

\* str(value) on an int or a str
py_str(value) == IF value.type = "int" THEN int_to_str(value.v) ELSE value.v

\* the if / elif chain of fetch_latest_draw, in its order: label, program,
\* category
label_chain ==
    <<[label |->
          <<"p", "r", "o", "v", "i", "n", "c", "i", "a", "l", " ", "n",
            "o", "m", "i", "n", "e", "e", " ", "p", "r", "o", "g", "r",
            "a", "m">>,
       program |-> "EE-PNP", category |-> "General"],
      [label |->
          <<"c", "a", "n", "a", "d", "i", "a", "n", " ", "e", "x", "p",
            "e", "r", "i", "e", "n", "c", "e", " ", "c", "l", "a", "s",
            "s">>,
       program |-> "EE-CEC", category |-> "General"],
      [label |->
          <<"f", "r", "e", "n", "c", "h", " ", "l", "a", "n", "g", "u",
            "a", "g", "e", " ", "p", "r", "o", "f", "i", "c", "i", "e",
            "n", "c", "y">>,
       program |-> "EE-French", category |-> "French"],
      [label |->
          <<"e", "d", "u", "c", "a", "t", "i", "o", "n", " ", "o", "c",
            "c", "u", "p", "a", "t", "i", "o", "n", "s">>,
       program |-> "EE-Education", category |-> "Education"],
      [label |->
          <<"h", "e", "a", "l", "t", "h", "c", "a", "r", "e">>,
       program |-> "EE-Health", category |-> "Health"],
      [label |->
          <<"t", "r", "a", "d", "e", " ", "o", "c", "c", "u", "p", "a",
            "t", "i", "o", "n", "s">>,
       program |-> "EE-Trade", category |-> "Trade"],
      [label |->
          <<"g", "e", "n", "e", "r", "a", "l">>,
       program |-> "EE-General", category |-> "General"],
      [label |->
          <<"a", "g", "r", "i", "c", "u", "l", "t", "u", "r", "e">>,
       program |-> "EE-Agriculture", category |-> "Agriculture"],
      [label |->
          <<"s", "t", "e", "m">>,
       program |-> "EE-STEM", category |-> "STEM"]>>

\* datetime.strptime(s, "%B %d, %Y").strftime("%Y-%m-%d"), or s unchanged
\* when it does not parse
FullDates ==
    UNION {{[full |-> month_names[m] \o " " \o day \o ", " \o ToString(y),
             iso |-> DateStr(y, m, d)] :
               day \in {ToString(d), Pad2(d)}} :
           y \in Years, m \in 1..12, d \in {1, 5, 28}}

convert_date(draw_date_full) ==
    IF \E f \in FullDates : f.full = draw_date_full
    THEN (CHOOSE f \in FullDates : f.full = draw_date_full).iso
    ELSE draw_date_full

\* fetch_latest_draw lines 36-98 on the first round of the feed
fetch_latest_draw(latest_draw) ==
    LET draw_date_full == get(latest_draw, "drawDateFull", "Unknown Date")
        score == get(latest_draw, "drawCRS", PyStr(<<"?">>))
        invitations == remove_commas(py_str(get(latest_draw, "drawSize",
                                                PyStr(<<"0">>))))
        draw_name == get(latest_draw, "drawName",
                         <<"E", "x", "p", "r", "e", "s", "s", " ",
                           "E", "n", "t", "r", "y">>)
        draw_name_lower == str_lower(draw_name)
        hits == {i \in 1..Len(label_chain) :
                    contains(draw_name_lower, label_chain[i].label)}
        first == CHOOSE i \in hits : \A j \in hits : i <= j
        program == IF hits = {} THEN "EE-General" ELSE label_chain[first].program
        category == IF hits = {} THEN "General" ELSE label_chain[first].category
    IN  [Program |-> program,
         Category |-> category,
         Score |-> score,
         Invitation |-> PyStr(invitations)]
        @@ ("draw.date.most.recent" :> convert_date(draw_date_full))
        @@ ("Draw Number" :> get(latest_draw, "drawNumber", PyStr(<<"?">>)))

\* drawName values of the feed
DrawNames ==
    {<<"P", "r", "o", "v", "i", "n", "c", "i", "a", "l", " ", "N", "o",
       "m", "i", "n", "e", "e", " ", "P", "r", "o", "g", "r", "a", "m">>,
     <<"C", "a", "n", "a", "d", "i", "a", "n", " ", "E", "x", "p", "e",
       "r", "i", "e", "n", "c", "e", " ", "C", "l", "a", "s", "s">>,
     <<"F", "r", "e", "n", "c", "h", " ", "l", "a", "n", "g", "u", "a",
       "g", "e", " ", "p", "r", "o", "f", "i", "c", "i", "e", "n", "c",
       "y", " ", "(", "V", "e", "r", "s", "i", "o", "n", " ", "1", ")">>,
     <<"E", "d", "u", "c", "a", "t", "i", "o", "n", " ", "o", "c", "c",
       "u", "p", "a", "t", "i", "o", "n", "s">>,
     <<"H", "e", "a", "l", "t", "h", "c", "a", "r", "e", " ", "o", "c",
       "c", "u", "p", "a", "t", "i", "o", "n", "s">>,
     <<"T", "r", "a", "d", "e", " ", "o", "c", "c", "u", "p", "a", "t",
       "i", "o", "n", "s">>,
     <<"G", "e", "n", "e", "r", "a", "l">>,
     <<"A", "g", "r", "i", "c", "u", "l", "t", "u", "r", "e", " ", "a",
       "n", "d", " ", "a", "g", "r", "i", "-", "f", "o", "o", "d", " ",
       "o", "c", "c", "u", "p", "a", "t", "i", "o", "n", "s">>,
     <<"S", "T", "E", "M", " ", "o", "c", "c", "u", "p", "a", "t", "i",
       "o", "n", "s">>,
     <<"T", "r", "a", "n", "s", "p", "o", "r", "t", " ", "o", "c", "c",
       "u", "p", "a", "t", "i", "o", "n", "s">>,
     <<"N", "o", " ", "P", "r", "o", "g", "r", "a", "m", " ", "S", "p",
       "e", "c", "i", "f", "i", "e", "d">>,
     <<"F", "e", "d", "e", "r", "a", "l", " ", "S", "k", "i", "l", "l",
       "e", "d", " ", "W", "o", "r", "k", "e", "r">>,
     <<"G", "e", "n", "e", "r", "a", "l", " ", "h", "e", "a", "l", "t",
       "h", "c", "a", "r", "e", " ", "s", "y", "s", "t", "e", "m">>}

\* rounds of the feed: drawSize comes as a number or as a string, possibly
\* comma-formatted
Rounds ==
    {[drawName |-> name, drawSize |-> size, drawCRS |-> crs,
      drawNumber |-> PyStr(<<"3", "4", "8">>), drawDateFull |-> date] :
        name \in DrawNames,
        size \in {PyInt(2), PyStr(<<"2">>), PyStr(<<"1", ",", "0", "0", "0">>)},
        crs \in {PyInt(475), PyStr(<<"4", "7", "5">>)},
        date \in {"December 5, 2025", "2025-12-05"}}

InitPoller ==
    /\ now \in {t \in Instants : t.year = 2025 /\ t.day = 15}
    /\ pointer = None
    /\ reports = << >>
    /\ template = << >>
    /\ ret = NoCall
    /\ hist = None
    /\ pc = "start"
    /\ loc \in {[latest_draw |-> r, draw_data |-> None] : r \in Rounds}

\* lambda_handler line 140
FetchLatestDraw ==
    /\ pc = "start"
    /\ loc' = [loc EXCEPT !.draw_data = fetch_latest_draw(loc.latest_draw)]
    /\ pc' = "fetched"
    /\ ret' = Call("fetch_latest_draw", loc.latest_draw, loc'.draw_data)
    /\ UNCHANGED <<now, pointer, reports, template, hist>>

\* the payload reaches validate_webhook_data as the body of the webhook
ValidatePayload ==
    /\ pc = "fetched"
    /\ pc' = "validated"
    /\ ret' = Call("validate_webhook_data", [body |-> loc.draw_data],
                   validate_webhook_data([body |-> loc.draw_data]))
    /\ UNCHANGED <<now, pointer, reports, template, hist, loc>>

\* the payload reaches merge_draw_data on an empty bucket
MergePayload ==
    /\ pc \in {"fetched", "validated"}
    /\ pc' = "merged"
    /\ ret' = Call("merge_draw_data", [body |-> loc.draw_data],
                   merge_draw_data(zero_data, [body |-> loc.draw_data]))
    /\ UNCHANGED <<now, pointer, reports, template, hist, loc>>

NextPoller == FetchLatestDraw \/ ValidatePayload \/ MergePayload

SpecPoller == InitPoller /\ [][NextPoller]_vars

\* C13: every payload fetch_latest_draw emits, its Invitation a numeric
\* string, is accepted by validate_webhook_data and merged by merge_draw_data
\* without raising.
C13_NumericCoercion ==
    /\ ret.op = "validate_webhook_data" => ~ret.value.raised
    /\ ret.op = "merge_draw_data" => ~ret.value.raised

\* C14: fetch_latest_draw returns the generic code when no label of the chain
\* is in the draw name, and every code it returns has a destination field in
\* merge_draw_data.
C14_LabelMapping ==
    ret.op = "fetch_latest_draw" =>
        /\ (\A i \in 1..Len(label_chain) :
                ~contains(str_lower(ret.args.drawName), label_chain[i].label))
              => ret.value.Program = "EE-General"
        /\ ret.value.Program \in KnownPrograms

(***************************************************************************)
(* merge_draw_data applied to one bucket state in two orders.              *)
(***************************************************************************)
\* bucket states the two events are merged into
Buckets ==
    {[zero_data EXCEPT !.total_itas = c + h, !.cec_itas = c, !.healthcare = h,
                       !.category_based_total = h, !.draw_count = n] :
        c \in {0, 2}, h \in {0, 1}, n \in {0, 1}}

ProgramEvents == {Body(p, i) : p \in DOMAIN ProgramField, i \in {1, 2}}

CategoryEvents == {Body(p, i) : p \in DOMAIN CategoryField, i \in {1, 2}}

\* left: the bucket after the merges in the order E1, E2; right: in the order
\* E2, E1; left_n, right_n: how many of the two have been merged
InitCommute ==
    /\ now \in {t \in Instants : t.year = 2025 /\ t.day = 15}
    /\ pointer = None
    /\ reports = << >>
    /\ template = << >>
    /\ ret = NoCall
    /\ hist = None
    /\ pc = << >>
    /\ loc \in {[bucket |-> b, E1 |-> e1, E2 |-> e2,
                  left |-> b, left_n |-> 0, right |-> b, right_n |-> 0] :
                    b \in Buckets, e1 \in ProgramEvents, e2 \in CategoryEvents}

MergeLeft ==
    /\ loc.left_n < 2
    /\ LET event == IF loc.left_n = 0 THEN loc.E1 ELSE loc.E2
           merged == merge_draw_data(loc.left, event)
       IN  /\ ~merged.raised
           /\ loc' = [loc EXCEPT !.left = merged.data, !.left_n = @ + 1]
    /\ UNCHANGED <<now, pointer, reports, template, ret, hist, pc>>

MergeRight ==
    /\ loc.right_n < 2
    /\ LET event == IF loc.right_n = 0 THEN loc.E2 ELSE loc.E1
           merged == merge_draw_data(loc.right, event)
       IN  /\ ~merged.raised
           /\ loc' = [loc EXCEPT !.right = merged.data, !.right_n = @ + 1]
    /\ UNCHANGED <<now, pointer, reports, template, ret, hist, pc>>

NextCommute == MergeLeft \/ MergeRight

SpecCommute == InitCommute /\ [][NextCommute]_vars

\* C15: merging a program-coded event E1 and then a category-coded event E2
\* gives the same value in every per-program and per-category field, in
\* total_itas, in category_based_total and in draw_count as merging E2 and
\* then E1.
C15_Commutativity ==
    (loc.left_n = 2 /\ loc.right_n = 2) =>
        \A k \in FlatKeys \cup {"total_itas", "category_based_total", "draw_count"} :
            loc.left[k] = loc.right[k]

\* both orders have been merged into a bucket that held invitations already,
\* and both events have reached the total
C15_Witness ==
    /\ loc.left_n = 2 /\ loc.right_n = 2
    /\ loc.bucket.total_itas > 0
    /\ loc.left.total_itas = loc.bucket.total_itas
           + loc.E1.body.Invitation.v + loc.E2.body.Invitation.v
    /\ loc.right.draw_count = loc.bucket.draw_count + 2

(***************************************************************************)
(* The file writes of one update_current_report_with_draw, step by step:   *)
(* open(file, 'w') truncates the file, the content follows, and the        *)
(* process may die between any two steps.                                  *)
(***************************************************************************)
\* a pointer file that holds no complete JSON document
Partial == [partial |-> TRUE]

\* load_current_report_info: None when the file is absent and, through the
\* except clause, when json.load fails
load_current_report_info(file) ==
    IF file = None \/ file = Partial THEN None ELSE file

\* loc.old: the files before the update; loc.new: the files it writes
InitCrash ==
    /\ now \in {t \in Instants : t.year = 2025 /\ t.day = 15}
    /\ template \in Templates
    /\ \E draw_data \in ConcPayloads :
          \E c \in {create_current_monthly_report(None, << >>, template, now)} :
             \E r \in {update_current_report_with_draw(
                           c.pointer, c.reports, template, now, draw_data)} :
                /\ pointer = c.pointer
                /\ reports = c.reports
                /\ loc = [draw_data |-> draw_data,
                          old |-> [pointer |-> c.pointer, reports |-> c.reports],
                          new |-> [pointer |-> r.pointer, reports |-> r.reports]]
    /\ ret = NoCall
    /\ hist = None
    /\ pc = "start"

\* update_report line 412: open(report_file, 'w')
OpenReport ==
    /\ pc = "start"
    /\ reports' = write_file(reports, BucketDir, << >>)
    /\ pc' = "report_open"
    /\ UNCHANGED <<now, pointer, template, ret, hist, loc>>

\* update_report line 413: f.write(updated_content), as far as it gets
WriteReportChunk ==
    /\ pc = "report_open"
    /\ Len(reports[BucketDir]) < Len(loc.new.reports[BucketDir])
    /\ reports' = write_file(reports, BucketDir,
                     SubSeq(loc.new.reports[BucketDir], 1,
                            Len(reports[BucketDir]) + 1))
    /\ UNCHANGED <<now, pointer, template, ret, hist, pc, loc>>

CloseReport ==
    /\ pc = "report_open"
    /\ reports[BucketDir] = loc.new.reports[BucketDir]
    /\ pc' = "report_closed"
    /\ UNCHANGED <<now, pointer, reports, template, ret, hist, loc>>

\* save_current_report_info line 106: open(self.current_file, 'w')
OpenPointer ==
    /\ pc = "report_closed"
    /\ pointer' = Partial
    /\ pc' = "pointer_open"
    /\ UNCHANGED <<now, reports, template, ret, hist, loc>>

\* save_current_report_info line 107: json.dump(report_info, f) and close
WritePointer ==
    /\ pc = "pointer_open"
    /\ pointer' = loc.new.pointer
    /\ pc' = "done"
    /\ UNCHANGED <<now, reports, template, ret, hist, loc>>

\* the process dies during a write
Crash ==
    /\ pc \in {"report_open", "pointer_open"}
    /\ pc' = "crashed"
    /\ UNCHANGED <<now, pointer, reports, template, ret, hist, loc>>

\* a later process loads the report and the pointer
LoadAfter ==
    /\ pc \in {"crashed", "done"}
    /\ pc' = "loaded"
    /\ ret' = Call("load", None,
                   [report |-> reports[BucketDir],
                    current_data |-> extract_current_data(reports[BucketDir]),
                    pointer |-> load_current_report_info(pointer)])
    /\ UNCHANGED <<now, pointer, reports, template, hist, loc>>

NextCrash ==
    \/ OpenReport
    \/ WriteReportChunk
    \/ CloseReport
    \/ OpenPointer
    \/ WritePointer
    \/ Crash
    \/ LoadAfter

SpecCrash == InitCrash /\ [][NextCrash]_vars

\* C16: whenever the writing process dies, a later load of the report reads
\* the complete old or the complete new report, and a later load of the
\* pointer reads the complete old or the complete new pointer document.
C16_AtomicSave ==
    ret.op = "load" =>
        /\ ret.value.report \in {loc.old.reports[BucketDir],
                                 loc.new.reports[BucketDir]}
        /\ ret.value.pointer \in {loc.old.pointer, loc.new.pointer}

(***************************************************************************)
(* get_report_status_summary.                                              *)
(***************************************************************************)
\* get_month_number: the number of a lower-cased month name, 1 when unknown
get_month_number(month_name) ==
    IF \E m \in 1..12 : lower(month_names[m]) = lower(month_name)
    THEN CHOOSE m \in 1..12 : lower(month_names[m]) = lower(month_name)
    ELSE 1

\* self.base_dir.glob("ee-*-2025") with re.match(r'ee-(\w+)-(\d{4})') on each
\* name: the month name and the year of the directories that match
glob_ee_2025(reps) ==
    {[dir_name |-> d, month_name |-> lower(month_names[m]), year |-> "2025"] :
        d \in DOMAIN reps, m \in 1..12} \cap
    {[dir_name |-> "ee-" \o lower(month_names[m]) \o "-2025",
      month_name |-> lower(month_names[m]), year |-> "2025"] : m \in 1..12}

\* reports.sort(key=lambda x: x['month_str']) on summaries of distinct months
RECURSIVE sort_by_month_str(_)
sort_by_month_str(summaries) ==
    IF summaries = {} THEN << >>
    ELSE LET least == CHOOSE x \in summaries :
                         \A y \in summaries : x.month_number <= y.month_number
         IN  <<least>> \o sort_by_month_str(summaries \ {least})

\* get_report_status_summary: [pointer, reports, value]
get_report_status_summary(ptr, reps, tmpl, clock) ==
    LET g == get_current_report_info(ptr, reps, tmpl, clock)
        current_info == g.value
        found ==
          {[month_str |-> e.year \o "-" \o Pad2(get_month_number(e.month_name)),
            month_number |-> get_month_number(e.month_name),
            year |-> e.year,
            path |-> e.dir_name,
            is_current |-> current_info.month_str =
                             e.year \o "-" \o Pad2(get_month_number(e.month_name)),
            exists |-> TRUE] : e \in glob_ee_2025(g.reports)}
        all_reports == sort_by_month_str(found)
    IN  [pointer |-> g.pointer, reports |-> g.reports,
         value |-> [current_report |-> current_info,
                    all_reports |-> all_reports,
                    total_reports |-> Len(all_reports)]]

InitStatus ==
    /\ now \in Instants
    /\ pointer = None
    /\ reports = << >>
    /\ template \in Templates
    /\ ret = NoCall
    /\ hist = None
    /\ pc = << >>
    /\ loc = << >>

\* --status
StatusSummary ==
    \E r \in {get_report_status_summary(pointer, reports, template, now)} :
        /\ pointer' = r.pointer
        /\ reports' = r.reports
        /\ ret' = Call("get_report_status_summary", None, r.value)
        /\ UNCHANGED <<now, template, hist, pc, loc>>

NextStatus == Tick \/ CreateCurrent \/ UpdateCurrent \/ StatusSummary

SpecStatus == InitStatus /\ [][NextStatus]_vars

\* the month (YYYY-MM) of a report directory
MonthOfDir(d) ==
    LET ym == CHOOSE p \in ValidMonths : Directory(month_names[p[2]], p[1]) = d
    IN  MonthStr(ym[1], ym[2])

\* C17: get_report_status_summary returns one summary for every month whose
\* report exists, whatever its year, in ascending order of YYYY-MM, and flags
\* is_current for exactly the month the pointer designates.
C17_ListAll ==
    ret.op = "get_report_status_summary" =>
        LET all == ret.value.all_reports
        IN  /\ {all[i].month_str : i \in 1..Len(all)}
                  = {MonthOfDir(d) : d \in DOMAIN reports}
            /\ Len(all) = Cardinality(DOMAIN reports)
            /\ \A i \in 1..Len(all), j \in 1..Len(all) :
                  i < j => \/ all[i].year = all[j].year
                              /\ all[i].month_number < all[j].month_number
                           \/ all[i].year # all[j].year
            /\ \A i \in 1..Len(all) :
                  all[i].is_current <=> (all[i].month_str = pointer.month_str)

(***************************************************************************)
(* DrawAutomationSystem: the news article of one draw.  The site is the    *)
(* set of article files, the draws category page (its article cards and    *)
(* whether it holds the insertion marker) and the daily news page (its     *)
(* article count and whether the count pattern matches it); a page that    *)
(* does not exist is None.                                                 *)
(***************************************************************************)
\* most article cards and counted articles of the site
MaxArticles == 2
\* largest invitation count analyze_draw_data is applied to
MaxInvitation == 4100

impact_levels ==
    [level \in {"High", "Critical", "Moderate", "Low"} |->
        CASE level = "High" -> [class |-> "high", text |-> "High Impact"]
          [] level = "Critical" -> [class |-> "critical", text |-> "Critical Impact"]
          [] level = "Moderate" -> [class |-> "high", text |-> "Moderate Impact"]
          [] level = "Low" -> [class |-> "high", text |-> "Low Impact"]]

\* an analysis whose thresholds are exclusive
analyze_draw_data_exclusive(data) ==
    LET itas == get(data, "invitation", PyInt(0))
        crs == get(data, "cutoff", PyInt(0))
        draw_type == get(data, "draw_type", "General")
        date == get(data, "date", "today")
        impact_level ==
          IF itas.v > 4000 THEN "Critical"
          ELSE IF itas.v > 2000 THEN "High"
          ELSE IF itas.v > 1000 THEN "Moderate"
          ELSE "Low"
    IN  IF itas.type # "int"
        THEN [raised |-> TRUE]
        ELSE [raised |-> FALSE,
              impact_level |-> impact_level,
              itas |-> itas, crs |-> crs, draw_type |-> draw_type, date |-> date,
              title |-> <<draw_type, itas.v, crs.v>>]

\* analyze_draw_data: a str compared with 4000 raises TypeError; the title
\* is kept as the values it is formatted from
analyze_draw_data(data) ==
    LET itas == get(data, "invitation", PyInt(0))
        crs == get(data, "cutoff", PyInt(0))
        draw_type == get(data, "draw_type", "General")
        date == get(data, "date", "today")
        impact_level ==
          IF itas.v >= 4000 THEN "Critical"
          ELSE IF itas.v >= 2000 THEN "High"
          ELSE IF itas.v >= 1000 THEN "Moderate"
          ELSE "Low"
    IN  IF itas.type # "int"
        THEN [raised |-> TRUE]
        ELSE [raised |-> FALSE,
              impact_level |-> impact_level,
              itas |-> itas, crs |-> crs, draw_type |-> draw_type, date |-> date,
              title |-> <<draw_type, itas.v, crs.v>>]

\* create_article_file: the article is written under its date and slug
create_article_file(site, analysis) ==
    [site EXCEPT !.articles = @ \cup {<<analysis.date, analysis.title>>}]

\* update_draws_category_page: content.replace(marker, card + marker)
update_draws_category_page(site, analysis) ==
    IF site.draws_index = None \/ ~site.draws_index.marker
    THEN site
    ELSE [site EXCEPT !.draws_index.cards =
                         <<<<analysis.date, analysis.title>>>> \o @]

\* update_daily_news_page: the count of the draws card, when it is found
update_daily_news_page(site, analysis) ==
    IF site.daily_index = None \/ ~site.daily_index.matched
    THEN site
    ELSE [site EXCEPT !.daily_index.count = @ + 1]

\* what requests.post(...) / raise_for_status() do: SLACK_WEBHOOK_URL unset,
\* delivered, post raises, error status
SlackOutcomes == {"unset", "ok", "raises", "error_status"}

\* a notification that lets the failure of the post escape
send_slack_notification_unguarded(slack) ==
    [raised |-> slack \in {"raises", "error_status"}, delivered |-> slack = "ok"]

\* send_slack_notification: the post is inside try / except Exception
send_slack_notification(slack) ==
    [raised |-> FALSE, delivered |-> slack = "ok"]

\* process_draw_data: [site, value]
process_draw_data(site, data, slack) ==
    LET analysis == analyze_draw_data(data)
        s1 == create_article_file(site, analysis)
        s2 == update_draws_category_page(s1, analysis)
        s3 == update_daily_news_page(s2, analysis)
        failed(at) == [site |-> at,
                       value |-> [success |-> FALSE,
                                  error |-> "Failed to process draw data",
                                  escaped |-> send_slack_notification(slack).raised]]
    IN  IF analysis.raised THEN failed(site)
        ELSE IF send_slack_notification(slack).raised THEN failed(s3)
        ELSE [site |-> s3,
              value |-> [success |-> TRUE,
                         article_url |-> <<analysis.date, analysis.title>>,
                         title |-> analysis.title,
                         message |-> "Draw article created successfully"]]

DrawInputs ==
    {[invitation |-> i, cutoff |-> PyInt(500), draw_type |-> t,
      date |-> "2025-07-25"] :
        i \in {PyInt(500), PyInt(1500), PyInt(5000), PyStr("3,000")},
        t \in {"CEC", "General"}}

Sites ==
    {[articles |-> {}, draws_index |-> d, daily_index |-> n] :
        d \in {None, [marker |-> TRUE, cards |-> << >>],
                     [marker |-> FALSE, cards |-> << >>]},
        n \in {None, [matched |-> TRUE, count |-> 0],
                     [matched |-> FALSE, count |-> 0]}}

InitDraw ==
    /\ now \in {t \in Instants : t.year = 2025 /\ t.day = 15}
    /\ pointer = None
    /\ reports = << >>
    /\ template = << >>
    /\ ret = NoCall
    /\ hist = None
    /\ pc = << >>
    /\ loc \in Sites

\* main: one draw is processed, the notification ending as slack says
ProcessDrawData ==
    \E data \in DrawInputs, slack \in SlackOutcomes :
        \E r \in {process_draw_data(loc, data, slack)} :
            /\ Cardinality(r.site.articles) <= MaxArticles
            /\ r.site.draws_index # None =>
                  Len(r.site.draws_index.cards) <= MaxArticles
            /\ r.site.daily_index # None =>
                  r.site.daily_index.count <= MaxArticles
            /\ loc' = r.site
            /\ ret' = Call("process_draw_data",
                           [data |-> data, slack |-> slack], r.value)
            /\ UNCHANGED <<now, pointer, reports, template, hist, pc>>

NextDraw == ProcessDrawData

SpecDraw == InitDraw /\ [][NextDraw]_vars

\* C18: when the Slack post raises or returns an error status after the
\* article and the index pages were written, process_draw_data returns
\* success = True and the site is what it is after a delivered notification.
C18_NotificationIsolation ==
    [][(/\ ProcessDrawData
        /\ ret'.args.slack \in {"raises", "error_status"}
        /\ ret'.args.data.invitation.type = "int") =>
          /\ ret'.value.success
          /\ ret'.value.article_url \in loc'.articles
          /\ loc' = update_daily_news_page(
                       update_draws_category_page(
                         create_article_file(loc, analyze_draw_data(ret'.args.data)),
                         analyze_draw_data(ret'.args.data)),
                       analyze_draw_data(ret'.args.data))]_vars

\* the post has raised after an article card was added to the category page
\* and the count of the daily page was raised
C18_Witness ==
    /\ ret.op = "process_draw_data"
    /\ ret.args.slack = "raises"
    /\ ret.value.success
    /\ ret.value.article_url \in loc.articles
    /\ loc.draws_index # None /\ Len(loc.draws_index.cards) > 0
    /\ loc.daily_index # None /\ loc.daily_index.count > 0

(***************************************************************************)
(* analyze_draw_data on every invitation count up to MaxInvitation.        *)
(***************************************************************************)
InitImpact ==
    /\ now \in {t \in Instants : t.year = 2025 /\ t.day = 15}
    /\ pointer = None
    /\ reports = << >>
    /\ template = << >>
    /\ ret = NoCall
    /\ hist = None
    /\ pc = << >>
    /\ loc \in {[invitation |-> PyInt(i), cutoff |-> PyInt(500),
                  draw_type |-> "General", date |-> "2025-07-25"] :
                    i \in 0..MaxInvitation}

AnalyzeDrawData ==
    /\ ret.op = "none"
    /\ ret' = Call("analyze_draw_data", loc, analyze_draw_data(loc))
    /\ UNCHANGED <<now, pointer, reports, template, hist, pc, loc>>

NextImpact == AnalyzeDrawData

SpecImpact == InitImpact /\ [][NextImpact]_vars

\* C20: for a non-negative invitation count analyze_draw_data returns
\* Critical from 4000, High from 2000 to 3999, Moderate from 1000 to 1999 and
\* Low below 1000, each a key of impact_levels.
C20_ImpactLevel ==
    ret.op = "analyze_draw_data" =>
        LET n == ret.args.invitation.v
            level == ret.value.impact_level
        IN  /\ ~ret.value.raised
            /\ level = "Critical" <=> n >= 4000
            /\ level = "High" <=> (2000 <= n /\ n < 4000)
            /\ level = "Moderate" <=> (1000 <= n /\ n < 2000)
            /\ level = "Low" <=> n < 1000
            /\ level \in DOMAIN impact_levels

\* the analysis of a draw of exactly 4000 invitations is Critical, and that
\* of exactly 2000 or 1000 has been made too
C20_Witness ==
    /\ ret.op = "analyze_draw_data"
    /\ ret.args.invitation.v = 4000
    /\ ret.value.impact_level = "Critical"

(***************************************************************************)
(* update_report run from the updater's own main, which hands the          *)
(* --draw-data file to it without validate_webhook_data: the Score may be  *)
(* a JSON string, which merge_draw_data stores and                         *)
(* generate_strategic_insights then compares with 0.                       *)
(***************************************************************************)
RenderPayloads ==
    {[body |-> [Body(p, i).body EXCEPT !["Score"] = s]] :
        p \in {"EE-CEC", "EE-Health", "EE-General"},
        i \in {1, 2},
        s \in {PyInt(475), PyStr("475")}}

InitRender == InitMerge

RenderDraw ==
    \E draw_data \in RenderPayloads :
        \E u \in {update_report(reports, BucketMonth, draw_data)} :
            /\ hist.n < MaxDraws
            /\ ~u.raised => WithinBound(u.updated_data)
            /\ reports' = u.reports
            /\ ret' = Call("update_report", draw_data,
                           IF u.raised
                           THEN [raised |-> TRUE, error |-> u.error]
                           ELSE [raised |-> FALSE,
                                 current_data |-> u.current_data,
                                 updated_data |-> u.updated_data])
            /\ hist' = [n |-> IF u.raised THEN hist.n ELSE hist.n + 1,
                        valid |-> hist.valid /\ ValidEvent(draw_data),
                        before |-> reports[BucketDir]]
            /\ UNCHANGED <<now, pointer, template, pc, loc>>

NextRender == RenderDraw

SpecRender == InitRender /\ [][NextRender]_vars

\* the aggregate the failed invocation had merged in memory
RenderMerged == merge_draw_data(extract_current_data(hist.before), ret.args)

\* C19: when update_report fails after merge_draw_data succeeded (the
\* analysis or the rendering raised), the merged aggregate is nevertheless
\* stored: the report on disk holds the statistics of the merged aggregate,
\* as it does after an invocation that succeeded.
C19_StateThenRender ==
    (/\ ret.op = "update_report"
     /\ ret.value.raised
     /\ ~RenderMerged.raised)
        => reports[BucketDir] = update_statistics(hist.before, RenderMerged.data)

(***************************************************************************)
(* Where an ingested draw lands.                                           *)
(***************************************************************************)
\* the report files that differ between two states of the reports directory
Modified(before, after) ==
    {d \in DOMAIN after : d \notin DOMAIN before \/ after[d] # before[d]}

\* the bucket the pointer document names
PointerDir(ptr) == get_month_info(ptr.month_str).directory

\* C21: update_current_report_with_draw merges the event into the bucket
\* that the pointer names, whatever the event's own draw date is, and
\* modifies no other report: every report that the step changes is the
\* pointer's, and a successful step reports the pointer's month and file.
C21_MergeTargetIsPointer ==
    [][ret'.op = "update_current_report_with_draw" =>
          /\ pointer' # None =>
                Modified(reports, reports') \subseteq {PointerDir(pointer')}
          /\ pointer # None =>
                /\ pointer'.month_str = pointer.month_str
                /\ Modified(reports, reports') \subseteq {PointerDir(pointer)}
          /\ ret'.value.success =>
                /\ ret'.value.month_str = pointer'.month_str
                /\ ret'.value.updated_file = PointerDir(pointer')]_vars

\* C21 witness: a draw dated in December 2025 was merged while the pointer
\* named January 2026, and the January report is the one holding it
C21_Witness ==
    /\ ret.op = "update_current_report_with_draw"
    /\ ret.value.success
    /\ ret.args.body["draw.date.most.recent"] = "2025-12-05"
    /\ ret.value.month_str = MonthStr(2026, 1)
    /\ ret.before = MonthStr(2026, 1)
    /\ \E i \in 1..Len(reports[PointerDir(pointer)]) :
          reports[PointerDir(pointer)][i].target > 0

(***************************************************************************)
(* The hourly transition check and the buckets that already exist.         *)
(***************************************************************************)
\* a report some total of which is not zero
NonZero(report_content) ==
    \E i \in 1..Len(report_content) : report_content[i].target > 0

\* C22: check_and_create_next_month_report creates the bucket of the
\* resolved month only if it is absent: a report that exists with non-zero
\* totals holds the same totals after the invocation.
C22_CreateOnlyIfAbsent ==
    [][ret'.op = "check_and_create_next_month_report" =>
          \A d \in DOMAIN reports :
              NonZero(reports[d]) => reports'[d] = reports[d]]_vars

(***************************************************************************)
(* The ee-draw-checker lambda_handler: one poll of the rounds feed against *)
(* the last draw kept in S3 (last_draw.json).  hist is the sequence of     *)
(* payloads the webhook received; loc.s3 is the stored object, None when   *)
(* the key does not exist.                                                 *)
(***************************************************************************)
MaxSent == 2

MaxDrawNumber == 3

Digits == {ToString(d) : d \in 0..9}

RECURSIVE digits_to_int(_)
digits_to_int(s) ==
    IF Len(s) = 0 THEN 0
    ELSE 10 * digits_to_int(SubSeq(s, 1, Len(s) - 1))
         + (CHOOSE d \in 0..9 : ToString(d) = s[Len(s)])

\* int(value): [raised, v]; ValueError on a str that is not a number
py_int(value) ==
    IF value.type = "int" THEN [raised |-> FALSE, v |-> value.v]
    ELSE IF Len(value.v) > 0 /\ \A i \in 1..Len(value.v) : value.v[i] \in Digits
    THEN [raised |-> FALSE, v |-> digits_to_int(value.v)]
    ELSE [raised |-> TRUE, v |-> 0]

HandlerOutcomes == {"ok", "raises"}

StatusBody(status, body) == [statusCode |-> status, body |-> body]

\* a comparison that lets a draw equal to the stored one through
is_replay_strict(last_draw, latest_draw_number_int, last_draw_number_int) ==
    last_draw # None /\ latest_draw_number_int < last_draw_number_int

\* lambda_handler line 160: if last_draw and latest <= last
is_replay(last_draw, latest_draw_number_int, last_draw_number_int) ==
    last_draw # None /\ latest_draw_number_int <= last_draw_number_int

\* a handler that records the draw before it sends it
save_then_send(store, sent, latest_draw, out) ==
    LET saved == IF out.save = "ok" THEN latest_draw ELSE store
    IN  IF out.send = "raises"
        THEN [s3 |-> saved, sent |-> sent, raised |-> FALSE,
              value |-> StatusBody(500, "Failed to send webhook")]
        ELSE [s3 |-> saved, sent |-> Append(sent, latest_draw), raised |-> FALSE,
              value |-> StatusBody(200, "New draw processed and webhook sent.")]

\* lambda_handler lines 166-182: send_webhook, then save_last_draw whose
\* failure is only printed
send_then_save(store, sent, latest_draw, out) ==
    IF out.send = "raises"
    THEN [s3 |-> store, sent |-> sent, raised |-> FALSE,
          value |-> StatusBody(500, "Failed to send webhook")]
    ELSE [s3 |-> IF out.save = "ok" THEN latest_draw ELSE store,
          sent |-> Append(sent, latest_draw), raised |-> FALSE,
          value |-> StatusBody(200, "New draw processed and webhook sent.")]

\* lambda_handler(event, context) on the store, the webhook's inbox, the
\* first round of the feed and the outcomes of the four remote calls
lambda_handler(store, sent, round, out) ==
    IF out.fetch = "raises"
    THEN [s3 |-> store, sent |-> sent, raised |-> FALSE,
          value |-> StatusBody(500, "Failed to fetch latest draw")]
    ELSE IF out.get = "raises"
    THEN [s3 |-> store, sent |-> sent, raised |-> TRUE, value |-> None]
    ELSE CHOOSE result \in UNION {UNION {
            {IF latest.raised \/ last.raised
             THEN [s3 |-> store, sent |-> sent, raised |-> FALSE,
                   value |-> StatusBody(500, "Invalid draw numbers")]
             ELSE IF is_replay(store, latest.v, last.v)
             THEN [s3 |-> store, sent |-> sent, raised |-> FALSE,
                   value |-> StatusBody(200, "No new draw.")]
             ELSE send_then_save(store, sent, latest_draw, out) :
                last \in {py_int(IF store # None
                                 THEN get(store, "Draw Number", PyStr(<<"0">>))
                                 ELSE PyStr(<<"0">>))}} :
                latest \in {py_int(get(latest_draw, "Draw Number",
                                       PyStr(<<"0">>)))}} :
                latest_draw \in {fetch_latest_draw(round)}} : TRUE

\* the rounds[0] the feed may show at a poll: draw numbers as the feed's
\* strings, and a round whose drawNumber is missing
HandlerRounds ==
    {[drawName |-> <<"G", "e", "n", "e", "r", "a", "l">>,
      drawSize |-> PyStr(<<"2">>), drawCRS |-> PyStr(<<"4", "7", "5">>),
      drawNumber |-> PyStr(int_to_str(n)), drawDateFull |-> "December 5, 2025"] :
        n \in 1..MaxDrawNumber}
    \cup {[drawName |-> <<"G", "e", "n", "e", "r", "a", "l">>,
           drawSize |-> PyStr(<<"2">>), drawCRS |-> PyStr(<<"4", "7", "5">>),
           drawDateFull |-> "December 5, 2025"]}

\* the outcomes of the remote calls of one poll: a call that raises ends the
\* poll (a failed save ends it too), so at most one of them is a failure
PollOutcomes ==
    {o \in [fetch : HandlerOutcomes, get : HandlerOutcomes,
            send : HandlerOutcomes, save : HandlerOutcomes] :
        Cardinality({k \in DOMAIN o : o[k] = "raises"}) <= 1}

InitHandler ==
    /\ now \in {t \in Instants : t.year = 2025 /\ t.day = 15}
    /\ pointer = None
    /\ reports = << >>
    /\ template = << >>
    /\ ret = NoCall
    /\ hist = << >>
    /\ pc = << >>
    /\ loc = [s3 |-> None]

\* one scheduled invocation
Poll ==
    \E round \in HandlerRounds :
      \E out \in PollOutcomes :
        \E r \in {lambda_handler(loc.s3, hist, round, out)} :
            /\ Len(r.sent) <= MaxSent
            /\ loc' = [s3 |-> r.s3]
            /\ hist' = r.sent
            /\ ret' = Call("lambda_handler", [round |-> round, out |-> out],
                           [raised |-> r.raised, value |-> r.value])
            /\ UNCHANGED <<now, pointer, reports, template, pc>>

NextHandler == Poll

SpecHandler == InitHandler /\ [][NextHandler]_vars

\* the draw number of a payload
NumberOf(draw_data) == py_int(get(draw_data, "Draw Number", PyStr(<<"0">>)))

\* the payload a poll fetched
Fetched(call) == fetch_latest_draw(call.args.round)

\* C23: whenever a last-seen draw is stored, a poll that fetches a draw
\* whose number is less than or equal to the stored number sends no webhook
\* and leaves the stored record unchanged.
C23_ReplayRejection ==
    [][(/\ ret'.op = "lambda_handler"
        /\ loc.s3 # None
        /\ ~NumberOf(Fetched(ret')).raised
        /\ NumberOf(Fetched(ret')).v <= NumberOf(loc.s3).v)
           => hist' = hist /\ loc' = loc]_vars

\* C23 witness: a poll found the stored draw again, after an earlier poll
\* had sent and stored it
C23_Witness ==
    /\ ret.op = "lambda_handler"
    /\ ret.args.out.fetch = "ok" /\ ret.args.out.get = "ok"
    /\ loc.s3 # None
    /\ Len(hist) = 1
    /\ NumberOf(Fetched(ret)) = NumberOf(loc.s3)
    /\ ret.value.value = StatusBody(200, "No new draw.")

\* C25: the stored last-seen draw is overwritten only by a poll that sent
\* the webhook for that very draw; a poll whose fetch, draw-number parsing
\* or webhook send fails leaves it unchanged, and after a failed send the
\* fetched draw still counts as new against the store.
C25_SendBeforeRecord ==
    [][ret'.op = "lambda_handler" =>
          /\ loc'.s3 # loc.s3 =>
                /\ ret'.args.out.send = "ok"
                /\ loc'.s3 = Fetched(ret')
                /\ hist' = Append(hist, loc'.s3)
          /\ (\/ ret'.args.out.fetch = "raises"
              \/ NumberOf(Fetched(ret')).raised
              \/ ret'.args.out.send = "raises") => loc'.s3 = loc.s3
          /\ ret'.value.value = StatusBody(500, "Failed to send webhook") =>
                /\ hist' = hist
                /\ ~is_replay(loc'.s3, NumberOf(Fetched(ret')).v,
                              IF loc'.s3 = None THEN 0
                              ELSE NumberOf(loc'.s3).v)]_vars

\* C25 witness: a send failed for a draw newer than the stored one, and the
\* store still holds the older draw
C25_Witness ==
    /\ ret.op = "lambda_handler"
    /\ ret.value.value = StatusBody(500, "Failed to send webhook")
    /\ loc.s3 # None
    /\ NumberOf(Fetched(ret)).v > NumberOf(loc.s3).v

\* C26: over any sequence of polls, whatever the webhook send and the S3
\* save do, no draw number reaches the webhook more than once.
C26_AtMostOnce ==
    \A i, j \in 1..Len(hist) :
        i # j => NumberOf(hist[i]).v # NumberOf(hist[j]).v

(***************************************************************************)
(* The IRCC monitor (lambda/ircc_monitor.py).  The page is the sequence of *)
(* the (invitations, score) matches that the draw patterns find in it;     *)
(* hist.sent counts the repository dispatches GitHub received, loc.s3 is   *)
(* last_known_draw.json.  The outcome of a remote call is the same for     *)
(* every draw of one poll.                                                 *)
(***************************************************************************)
MaxWebhooks == 8

MaxMatches == 2

\* parse_ircc_page: one draw per match, numbered by its place in the page
\* (int(itas * 0.7) and the like are these quotients for the counts in Matches)
parse_ircc_page(html_content, clock) ==
    [i \in 1..Len(html_content) |->
        [draw_date |-> DateStr(clock.year, clock.month, clock.day),
         draw_number |-> PyInt(i),
         itas |-> PyInt(html_content[i].itas),
         crs |-> PyInt(html_content[i].crs),
         cec_itas |-> PyInt((html_content[i].itas * 7) \div 10),
         pnp_itas |-> PyInt((html_content[i].itas * 2) \div 10),
         fsw_itas |-> PyInt(0),
         fst_itas |-> PyInt(0),
         category_based_total |-> PyInt(html_content[i].itas \div 10),
         french_speaking |-> PyInt(0),
         healthcare |-> PyInt(0),
         stem |-> PyInt(0),
         trade |-> PyInt(0),
         education |-> PyInt(0),
         agriculture |-> PyInt(0),
         draw_type |-> "program-based"]]

\* fetch_ircc_data: the draws of every URL of IRCC_URLS that answered, the
\* same address twice
fetch_ircc_data(html_content, clock, out) ==
    (IF out.fetch1 = "ok" THEN parse_ircc_page(html_content, clock) ELSE << >>)
    \o (IF out.fetch2 = "ok" THEN parse_ircc_page(html_content, clock) ELSE << >>)

\* the comparison of lambda_handler lines 170-175
is_new_draw(draw, last_known) ==
    \/ last_known = None
    \/ draw.itas # last_known.itas
    \/ draw.crs # last_known.crs
    \/ draw.draw_date # last_known.draw_date

\* ircc_monitor.lambda_handler: [s3, sent, value]
ircc_lambda_handler(store, sent, html_content, clock, out) ==
    CHOOSE result \in UNION {
        {[s3 |-> IF out.send = "ok" /\ out.save = "ok" /\ Len(new_draws) > 0
                 THEN new_draws[Len(new_draws)] ELSE store,
          sent |-> IF out.send = "ok" THEN sent + Len(new_draws) ELSE sent,
          value |-> [statusCode |-> 200,
                     draws_found |-> Len(current_draws),
                     new_draws |-> Len(new_draws)]] :
            new_draws \in {SelectSeq(current_draws,
                              LAMBDA draw :
                                  is_new_draw(draw, IF out.get = "ok"
                                                    THEN store ELSE None))}} :
            current_draws \in {fetch_ircc_data(html_content, clock, out)}} : TRUE

\* what the patterns may find in the page
Matches == {[itas |-> 1000, crs |-> 475], [itas |-> 2500, crs |-> 500]}

Pages == UNION {[1..n -> Matches] : n \in 0..MaxMatches}

MonitorOutcomes ==
    [get : {"ok", "raises"}, fetch1 : {"ok", "raises"}, fetch2 : {"ok", "raises"},
     send : {"ok", "raises"}, save : {"ok", "raises"}]

InitMonitor ==
    /\ now \in {t \in Instants : t.year = 2025 /\ t.day = 15}
    /\ pointer = None
    /\ reports = << >>
    /\ template = << >>
    /\ ret = NoCall
    /\ hist = [sent |-> 0]
    /\ pc = << >>
    /\ loc = [s3 |-> None]

\* one hourly invocation
MonitorPoll ==
    \E html_content \in Pages :
      \E out \in MonitorOutcomes :
        \E r \in {ircc_lambda_handler(loc.s3, hist.sent, html_content, now, out)} :
            /\ r.sent <= MaxWebhooks
            /\ loc' = [s3 |-> r.s3]
            /\ hist' = [sent |-> r.sent]
            /\ ret' = Call("ircc_lambda_handler",
                           [page |-> html_content, today |-> now, out |-> out],
                           r.value)
            /\ UNCHANGED <<now, pointer, reports, template, pc>>

NextMonitor == MonitorPoll

SpecMonitor == InitMonitor /\ [][NextMonitor]_vars

\* a poll all of whose remote calls succeeded
CleanPoll(call) ==
    /\ call.op = "ircc_lambda_handler"
    /\ \A k \in DOMAIN call.args.out : call.args.out[k] = "ok"

\* C27: after a poll that sent its webhooks and saved the last known draw,
\* a following poll on the same day that reads the same page content sends
\* no webhook, however many draws the page shows.
C27_Quiescence ==
    [][(/\ CleanPoll(ret)
        /\ ret.value.new_draws > 0
        /\ CleanPoll(ret')
        /\ ret'.args.page = ret.args.page
        /\ ret'.args.today = ret.args.today)
           => hist'.sent = hist.sent]_vars

(***************************************************************************)
(* The manager under its hourly schedule: --check-transition runs once in  *)
(* every hour, draws and the other entry points arrive at any time.  The   *)
(* clock visits the hours that the code tells apart (day 1 before 06:00,   *)
(* day 1 from 06:00, any other day); pc says whether the run of the        *)
(* present hour is still due.                                              *)
(***************************************************************************)
HourlyRuns ==
    <<[year |-> 2025, month |-> 12, day |-> 1, hour |-> 0],
      [year |-> 2025, month |-> 12, day |-> 1, hour |-> 5],
      [year |-> 2025, month |-> 12, day |-> 1, hour |-> 6],
      [year |-> 2025, month |-> 12, day |-> 15, hour |-> 8],
      [year |-> 2026, month |-> 1, day |-> 1, hour |-> 0],
      [year |-> 2026, month |-> 1, day |-> 1, hour |-> 5],
      [year |-> 2026, month |-> 1, day |-> 1, hour |-> 6],
      [year |-> 2026, month |-> 1, day |-> 15, hour |-> 8]>>

InitHourly ==
    /\ now = HourlyRuns[1]
    /\ pointer = None
    /\ reports = << >>
    /\ template \in {Shape(MaxElems, k) : k \in {0, 1}}
    /\ ret = NoCall
    /\ hist = None
    /\ pc = "due"
    /\ loc = << >>

\* the next hour begins once the run of this hour is over
HourPasses ==
    /\ pc = "done"
    /\ \E i \in 1..(Len(HourlyRuns) - 1) :
          now = HourlyRuns[i] /\ now' = HourlyRuns[i + 1]
    /\ pc' = "due"
    /\ UNCHANGED <<pointer, reports, template, ret, hist, loc>>

\* the scheduled --check-transition of the hour
ScheduledCheck ==
    /\ pc = "due"
    /\ \E r \in {check_and_create_next_month_report(pointer, reports, template, now)} :
          /\ pointer' = r.pointer
          /\ reports' = r.reports
          /\ ret' = Call("check_and_create_next_month_report", None, r.value)
    /\ pc' = "done"
    /\ UNCHANGED <<now, template, hist, loc>>

HourlyCreateCurrent == CreateCurrent /\ pc' = pc

HourlyGetCurrent == GetCurrent /\ pc' = pc

HourlyUpdateCurrent == UpdateCurrent /\ pc' = pc

HourlyUpdateWithDraw == UpdateWithDraw /\ pc' = pc

NextHourly ==
    \/ HourPasses
    \/ ScheduledCheck
    \/ HourlyCreateCurrent
    \/ HourlyGetCurrent
    \/ HourlyUpdateCurrent
    \/ HourlyUpdateWithDraw

SpecHourly == InitHourly /\ [][NextHourly]_vars

\* the first scheduled run of the month of the clock is over
TransitionRan == now.day > 1 \/ now.hour > 0 \/ pc = "done"

\* the operations that designate a month
Designations ==
    {"create_current_monthly_report", "update_current_report_designation",
     "check_and_create_next_month_report"}

\* C24: under the hourly schedule the pointer names the month of the clock
\* from the first run of day 1 on (so before 06:00 of day 1); from then on
\* every draw that is ingested changes the report of that month and no
\* other; and the month a set pointer names is changed by a designation
\* only.
C24_HourlySchedule ==
    /\ [](TransitionRan =>
             pointer # None /\ pointer.month_str = MonthStr(now.year, now.month))
    /\ [][(ret'.op = "update_current_report_with_draw" /\ TransitionRan) =>
             /\ Modified(reports, reports')
                   \subseteq {Directory(month_names[now.month], now.year)}
             /\ ret'.value.success =>
                   ret'.value.month_str = MonthStr(now.year, now.month)]_vars
    /\ [][(pointer # None /\ pointer' # None
              /\ pointer'.month_str # pointer.month_str) =>
             ret'.op \in Designations]_vars

\* C24 witness: in January, after the run of 00:00 on day 1 moved the
\* pointer from December, a draw was merged into the January report
C24_Witness ==
    /\ now.year = 2026 /\ now.month = 1 /\ now.day = 1 /\ now.hour < 6
    /\ ret.op = "update_current_report_with_draw"
    /\ ret.value.success
    /\ ret.value.month_str = MonthStr(2026, 1)
    /\ "ee-december-2025" \in DOMAIN reports
    /\ NonZero(reports["ee-january-2026"])

(***************************************************************************)
(* The month the pointer names against the month of the clock.             *)
(***************************************************************************)
\* months in calendar order
MonthIndex(year, month) == year * 12 + month

PointerIndex(ptr) == MonthIndex(ptr.month_info.year, ptr.month_info.month)

\* C28: every write of the pointer's month designates the calendar month of
\* the clock at the time of the write; so the month the pointer names is
\* never later than the month of the clock and, the clock never going
\* back, never moves backwards.
C28_PointerNeverAhead ==
    /\ [](pointer # None =>
             PointerIndex(pointer) <= MonthIndex(now.year, now.month))
    /\ [][(pointer' # None /\ pointer' # pointer
              /\ (ret'.op \in Designations
                    \/ pointer = None
                    \/ pointer'.month_str # pointer.month_str)) =>
             /\ pointer'.month_str = MonthStr(now.year, now.month)
             /\ PointerIndex(pointer') = MonthIndex(now.year, now.month)]_vars
    /\ [][(pointer # None /\ pointer' # None) =>
             PointerIndex(pointer') >= PointerIndex(pointer)]_vars

\* C28 witness: the transition check of 1 January moved the pointer from
\* December 2025 to January 2026
C28_Witness ==
    /\ ret.op = "check_and_create_next_month_report"
    /\ ret.before = MonthStr(2025, 12)
    /\ pointer # None
    /\ pointer.month_str = MonthStr(2026, 1)
    /\ now.year = 2026 /\ now.month = 1 /\ now.day = 1

parse_program_category(program) ==
    IF program \in DOMAIN ProgramField
    THEN [type |-> "program-based", field |-> ProgramField[program]]
    ELSE IF program \in DOMAIN CategoryField
    THEN [type |-> "category-based", field |-> CategoryField[program]]
    ELSE [type |-> "unknown", field |-> ""]

\* WebhookHandler.create_draw_data_file: the draw data it writes
create_draw_data_file(webhook_data) ==
    LET body == webhook_data.body
        program_info == parse_program_category(body.Program)
    IN  [k \in FlatKeys \cup {"draw_date", "draw_number", "itas", "crs", "draw_type"} |->
            IF k = "draw_date" THEN body["draw.date.most.recent"]
            ELSE IF k = "draw_number" THEN body["Draw Number"]
            ELSE IF k = "itas" THEN body.Invitation
            ELSE IF k = "crs" THEN body.Score
            ELSE IF k = "draw_type" THEN program_info.type
            ELSE IF k = program_info.field THEN body.Invitation
            ELSE IF k = "category_based_total" /\ program_info.type = "category-based"
            THEN body.Invitation
            ELSE PyInt(0)]

FlatPayloads ==
    {create_draw_data_file(Body(p, i)) :
        p \in KnownPrograms \cup {"EE-General"}, i \in {1, 2}}
    \cup {parse_ircc_page(<<m>>, [year |-> 2025, month |-> 12, day |-> 15, hour |-> 8])[1] :
            m \in Matches}

InitFlat ==
    /\ now \in {t \in Instants : t.year = 2025 /\ t.day = 15}
    /\ pointer = None
    /\ reports = << >>
    /\ template = << >>
    /\ ret = NoCall
    /\ hist = [n |-> 0, before |-> zero_data]
    /\ pc = << >>
    /\ loc = zero_data

MergeFlat ==
    \E new_draw_data \in FlatPayloads :
        \E merged \in {merge_draw_data(loc, new_draw_data)} :
            /\ hist.n < MaxDraws
            /\ loc' = merged.data
            /\ hist' = [n |-> hist.n + 1, before |-> loc]
            /\ ret' = Call("merge_draw_data", new_draw_data,
                           [raised |-> merged.raised])
            /\ UNCHANGED <<now, pointer, reports, template, pc>>

NextFlat == MergeFlat

SpecFlat == InitFlat /\ [][NextFlat]_vars

\* C30: for every bucket state that satisfies the sum invariant and every
\* payload of the flat shape, the state merge_draw_data returns satisfies
\* it again: total_itas is the sum of the program and category fields and
\* category_based_total the sum of the category fields.
C30_FlatMergeKeepsSums ==
    (/\ ret.op = "merge_draw_data"
     /\ ~ret.value.raised
     /\ SumInvariant(hist.before))
        => SumInvariant(loc)

====
